---- MODULE Spec2Model ----
(***************************************************************************)
(* Verification model of genropy/smpub.                                    *)
(*                                                                         *)
(* Part I  (SpecShop): one table handler call travelling through the       *)
(*   plugin chain of the demo shops (logging / validation / dbop) down to  *)
(*   the business function and back, against a database connection with    *)
(*   pending and committed rows.                                           *)
(* Part II (SpecPub): the Publisher registry (add / remove / unload_app /  *)
(*   savestate / loadstate / autosave) and its JSON snapshot file.         *)
(* Part III (SpecCli): one CLIChannel.run per step, from the tokens to the *)
(*   output, the exit status and the callable invoked, and the token       *)
(*   splitter _split_cli_args.                                             *)
(* Part IV (SpecHttp): the routes PublisherHTTP.create_fastapi_app makes   *)
(*   of the handler tree.                                                  *)
(* Part V  (SpecScope): the publish plugin, scope metadata of the methods  *)
(*   of one router and the views filtered by scope and channel.            *)
(* Part VI (SpecToggle): plugins switched on and off at run time for one   *)
(*   method of one instance.                                               *)
(* Part VII (SpecFlags): the flags mini-language of the logging plugin,    *)
(*   global flags and the override of one method.                          *)
(* Part VIII (SpecPublish): the publish plugin's configuration at its      *)
(*   three levels, the scope payload it keeps on the entries and the       *)
(*   validation of channel codes.                                          *)
(* Part IX (SpecConn): the threads of a process using one SqlDb, and the   *)
(*   connection each call is made on.                                      *)
(* Part X (SpecResolve): the channels the publish plugin resolves for one  *)
(*   scope tag from the scope_channels of the global configuration, the    *)
(*   entry metadata and the method configuration.                          *)
(***************************************************************************)
EXTENDS Naturals, Integers, Sequences, FiniteSets, TLC

VARIABLES
    \* ---- Part I: handler call through the plugin chain ----
    chain,          \* plugin names of the handler's router, in plug() order
    pc,             \* "idle" | "enter" | "return" | "unwind"
    depth,          \* index of the wrapper in control; Len(chain)+1 = business function
    call,           \* arguments and environment outcomes of the call in progress
    kwCursor,       \* value of kwargs["cursor"] as it travels inward
    exc,            \* exception in flight ("none" when there is none)
    log,            \* hooks observed during the current call, in order
    cursorCalls,    \* db.cursor() invocations during the current call
    commitCalls,    \* db.commit() invocations made by the plugin during the current call
    rollbackCalls,  \* db.rollback() invocations made by the plugin during the current call
    funcCursor,     \* cursor received by the business function ("unset" before it runs)
    funcResult,     \* how the business function ended: "none" | "returned" | the exception it raised
    dbopExit,       \* what left the dbop wrapper: "none" | "returned" | an exception
    rollbackOutcome,\* how the plugin's rollback() ended: "none" | "ok" | "Exception" | "BaseException"
    lastResult,     \* how the whole call ended: "none" | "returned" | an exception
    committed,      \* rows durably stored
    pending,        \* rows written on the connection and not yet committed
    nextId,         \* next row id handed out by the table
    trace,          \* history of finished operations on the connection
    \* ---- Part II: Publisher ----
    applications,   \* Publisher.applications : name -> instance
    metadata,       \* Publisher._metadata    : name -> {path, module, class}
    state,          \* Publisher._state       : name -> {spec, args, kwargs}
    children,       \* names of the root router's children (api._children)
    order,          \* insertion order of the keys of the three dicts above
    autosave,       \* Publisher._autosave
    stateFile,      \* contents of the file at state_path
    pubResult,      \* outcome of the last Publisher operation
    saved,          \* Publisher._state as it was at the last savestate
    fresh,          \* TRUE while the Publisher is new and has only loaded a snapshot
    snapshotWrites, \* snapshots written by the last operation: inside loadstate's loop, at its end
    \* ---- Part III: CLI channel ----
    cliHandlers,    \* names of the handlers the Publisher shows to the CLI channel
    cliArgs,        \* tokens of the last CLIChannel.run
    cliOut,         \* lines printed by the last run, in order
    cliExit,        \* "none" | "0" (run returned) | "1" (sys.exit(1))
    cliCall,        \* the callable the last run invoked, if any
    cliRaised,      \* exception that left run, "none" when there is none
    splitIn,        \* tokens last given to _split_cli_args
    splitOut,       \* what _split_cli_args made of them
    \* ---- Part IV: HTTP channel ----
    httpTree,       \* publisher.api.members(channel="SYS_HTTP") as the adapter reads it
    httpApp,        \* "none" | "built"
    httpRoutes,     \* routes registered on the FastAPI app
    \* ---- Part V: publish plugin ----
    entryCfg,       \* per method: the scopes and scope_channels configured for it
    entryScope,     \* per method: entry.metadata["scope"] as the plugin last wrote it
    view,           \* the last filtered view: filters and the methods that passed
    \* ---- Part VI: runtime control of plugins ----
    classCfg,       \* static plugin configuration of the class, parsed at plug() time
    toggles,        \* runtime enable flags, "unset" where none was given
    lastCall,       \* the last handler call and the plugins that acted on it
    \* ---- Part VII: logging flags ----
    flagGlobal,     \* tokens of the flags string given to plug("logging", flags=...)
    flagOverride,   \* tokens of the method_config string of one method
    flagResolved,   \* the configuration resolved for that method, once it is
    \* ---- Part VIII: publish plugin configuration ----
    globalConfig,   \* PublishPlugin._global_config: scopes and scope_channels
    handlerConfigs, \* PublishPlugin._handler_configs: per method, once configured
    entryOverrides, \* PublishPlugin._entry_overrides: per method, from its metadata
    pluginEntries,  \* names in PublishPlugin._entries, in order of decoration
    entryMetadata,  \* per method: entry.metadata["scope"], NoScope without the key
    publishOp,      \* the last operation on the plugin and how it ended
    \* ---- Part IX: connections of the database manager ----
    threadConn,     \* SqlDb._thread_local.conn per slot of the thread-local, 0 for none
    connCreator,    \* per connection made by adapter.connect(): the thread that made it
    dbUses,         \* cursor/commit/rollback calls so far: <<thread, connection, call>>
    \* ---- Part X: channels of one scope ----
    resolveIn,      \* a scope tag and the scope_channels of the three levels
    resolveOut      \* the channels resolved for the scope, once they are

shopVars == <<chain, pc, depth, call, kwCursor, exc, log, cursorCalls, commitCalls,
              rollbackCalls, funcCursor, funcResult, dbopExit, rollbackOutcome,
              lastResult,
              committed, pending, nextId, trace>>

pubVars == <<applications, metadata, state, children, order, autosave, stateFile,
             pubResult, saved, fresh, snapshotWrites>>

cliVars == <<cliHandlers, cliArgs, cliOut, cliExit, cliCall, cliRaised, splitIn, splitOut>>

httpVars == <<httpTree, httpApp, httpRoutes>>

scopeVars == <<entryCfg, entryScope, view>>

toggleVars == <<classCfg, toggles, lastCall>>

flagsVars == <<flagGlobal, flagOverride, flagResolved>>

publishVars == <<globalConfig, handlerConfigs, entryOverrides, pluginEntries, entryMetadata, publishOp>>

connVars == <<threadConn, connCreator, dbUses>>

resolveVars == <<resolveIn, resolveOut>>

vars == <<shopVars, pubVars, cliVars, httpVars, scopeVars, toggleVars, flagsVars, publishVars, connVars, resolveVars>>

\* What the actions of one part leave alone.
notShopVars == <<pubVars, cliVars, httpVars, scopeVars, toggleVars, flagsVars, publishVars, connVars, resolveVars>>
notPubVars == <<shopVars, cliVars, httpVars, scopeVars, toggleVars, flagsVars, publishVars, connVars, resolveVars>>
notCliVars == <<shopVars, pubVars, httpVars, scopeVars, toggleVars, flagsVars, publishVars, connVars, resolveVars>>
notHttpVars == <<shopVars, pubVars, cliVars, scopeVars, toggleVars, flagsVars, publishVars, connVars, resolveVars>>
notScopeVars == <<shopVars, pubVars, cliVars, httpVars, toggleVars, flagsVars, publishVars, connVars, resolveVars>>
notToggleVars == <<shopVars, pubVars, cliVars, httpVars, scopeVars, flagsVars, publishVars, connVars, resolveVars>>
notFlagsVars == <<shopVars, pubVars, cliVars, httpVars, scopeVars, toggleVars, publishVars, connVars, resolveVars>>
notPublishVars == <<shopVars, pubVars, cliVars, httpVars, scopeVars, toggleVars, flagsVars, connVars, resolveVars>>
notConnVars == <<shopVars, pubVars, cliVars, httpVars, scopeVars, toggleVars, flagsVars, publishVars, resolveVars>>
notResolveVars == <<shopVars, pubVars, cliVars, httpVars, scopeVars, toggleVars, flagsVars, publishVars, connVars>>

(***************************************************************************)
(* Bounds                                                                  *)
(***************************************************************************)
MaxOps == 3        \* operations (handler calls, explicit commits/rollbacks) per session
MaxEntries == 2    \* entries of a snapshot file not written by the Publisher
MaxFlagTokens == 2 \* tokens of a flags string

(***************************************************************************)
(* Part I.  Plugin chains as plugged by the two shops                      *)
(***************************************************************************)

\* demo_shop Table.__init__: Router(...).plug("logging").plug("dbop").plug("pydantic_extras")
DemoShopChain == <<"logging", "dbop", "pydantic">>

\* sample_shop Table.create_switcher: .plug("logging").plug("pydantic").plug(DbopPlugin())
SampleShopChain == <<"logging", "pydantic", "dbop">>

Chains == {DemoShopChain, SampleShopChain}

\* Exceptions.  IsException(e) is Python's isinstance(e, Exception);
\* KeyboardInterrupt stands for the BaseException-only classes.
BusinessError == "BusinessError"
ValidationError == "ValidationError"
CommitError == "CommitError"
RollbackInterrupt == "RollbackInterrupt"
KeyboardInterrupt == "KeyboardInterrupt"

IsException(e) == e \in {BusinessError, ValidationError, CommitError}

\* The cursor handed out by the provider and a cursor owned by the caller.
ProviderCursor == "db_cursor"
CallerCursor == "caller_cursor"

\* Keyword arguments of a call: "absent" means the key is not in kwargs.
CursorArgs == {"absent", "None", CallerCursor}
AutocommitArgs == {"absent", "False", "True"}

\* How the business function ends: it may raise before or after its INSERT.
FuncOutcomes == {"ok", "raise_before_insert", "raise_after_insert", "interrupt_after_insert"}

\* How the provider's commit() and rollback() end.
CommitOutcomes == {"ok", "Exception"}
RollbackOutcomes == {"ok", "Exception", "BaseException"}

\* A call: whether its arguments satisfy the declared constraints (price > 0),
\* and the cursor / autocommit keyword arguments.
Calls == [valid : BOOLEAN, cursor : CursorArgs, autocommit : AutocommitArgs]

\* Variant: a missing autocommit keyword counts as set.
Autocommit_DefaultTrue(kw) == kw \in {"True", "absent"}

\* autocommit = kwargs.get("autocommit", False), taken for its truth value
Autocommit(kw) == kw = "True"

NoCall == [valid |-> TRUE, cursor |-> "absent", autocommit |-> "absent"]

ShopInit ==
    /\ chain \in Chains
    /\ pc = "idle"
    /\ depth = 0
    /\ call = NoCall
    /\ kwCursor = "absent"
    /\ exc = "none"
    /\ log = <<>>
    /\ cursorCalls = 0
    /\ commitCalls = 0
    /\ rollbackCalls = 0
    /\ funcCursor = "unset"
    /\ funcResult = "none"
    /\ dbopExit = "none"
    /\ rollbackOutcome = "none"
    /\ lastResult = "none"
    /\ committed = {}
    /\ pending = {}
    /\ nextId = 1
    /\ trace = <<>>

\* Fixed values of Part I, for the specification of Part II.
ShopIdle == ShopInit /\ chain = SampleShopChain

-----------------------------------------------------------------------------
(* The dbop wrapper (DbopPlugin._wrap_handler.wrapper), in three parts:     *)
(* what runs before func, after func returned, and when func raised.        *)

\* Variant: only a missing key triggers the injection, an explicit None does not.
NeedsCursor_AbsentOnly(kw) == kw = "absent"

\* "cursor" not in kwargs or kwargs["cursor"] is None
NeedsCursor(kw) == kw \in {"absent", "None"}

\* Lines 69-76: read autocommit, inject a cursor when none was supplied.
DbopBefore ==
    /\ IF NeedsCursor(kwCursor)
          THEN /\ cursorCalls' = cursorCalls + 1
               /\ kwCursor' = ProviderCursor
          ELSE UNCHANGED <<cursorCalls, kwCursor>>

\* Variant: a failing rollback is not swallowed and masks the original exception.
DbopOnError_RollbackErrorEscapes(e, r) ==
    IF IsException(e)
      THEN /\ rollbackCalls' = rollbackCalls + 1
           /\ rollbackOutcome' = r
           /\ pending' = IF r = "ok" THEN {} ELSE pending
           /\ exc' = IF r = "ok" THEN e ELSE RollbackInterrupt
      ELSE /\ exc' = e
           /\ UNCHANGED <<rollbackCalls, rollbackOutcome, pending>>

\* Variant: the except clause re-raises without rolling back.
DbopOnError_NoRollback(e, r) ==
    /\ exc' = e
    /\ UNCHANGED <<rollbackCalls, rollbackOutcome, pending>>

\* Lines 88-96: except Exception: try rollback, swallow its Exception, re-raise.
\* e is the exception caught, r the way db.rollback() ends.  An exception that
\* is not an Exception passes the handler by; a rollback that raises something
\* that is not an Exception replaces the exception in flight.
DbopOnError(e, r) ==
    IF IsException(e)
      THEN /\ rollbackCalls' = rollbackCalls + 1
           /\ rollbackOutcome' = r
           /\ pending' = IF r = "ok" THEN {} ELSE pending
           /\ exc' = IF r = "BaseException" THEN RollbackInterrupt ELSE e
      ELSE /\ exc' = e
           /\ UNCHANGED <<rollbackCalls, rollbackOutcome, pending>>

\* Lines 82-86: commit when autocommit is set; a failing commit is inside the
\* try block, so it reaches the except clause as well.
DbopAfter ==
    IF Autocommit(call.autocommit)
      THEN \E c \in CommitOutcomes :
             /\ commitCalls' = commitCalls + 1
             /\ IF c = "ok"
                   THEN /\ committed' = committed \cup pending
                        /\ pending' = {}
                        /\ dbopExit' = "returned"
                        /\ UNCHANGED <<pc, exc, rollbackCalls, rollbackOutcome>>
                   ELSE /\ \E r \in RollbackOutcomes : DbopOnError(CommitError, r)
                        /\ dbopExit' = exc'
                        /\ pc' = "unwind"
                        /\ UNCHANGED committed
      ELSE /\ dbopExit' = "returned"
           /\ UNCHANGED <<pc, exc, commitCalls, committed, pending, rollbackCalls,
                          rollbackOutcome>>

-----------------------------------------------------------------------------
(* The validation plugin: binds the arguments against the schema built at   *)
(* registration and raises a ValidationError before calling inward.         *)
ValidationPasses == call.valid

-----------------------------------------------------------------------------
(* Chain composition (Router): the wrappers are folded from the last        *)
(* attached plugin to the first, so chain[1] is the outermost wrapper and   *)
(* the business function sits below chain[Len(chain)].                      *)

\* Variant: the fold runs the other way, the last attached plugin ends up outermost.
Plugin_LastOutermost(i) == chain[Len(chain) + 1 - i]

Plugin(i) == chain[i]
Innermost == Len(chain) + 1

\* A caller invokes a handler method.
BeginCall(c) ==
    /\ pc = "idle"
    /\ Len(trace) < MaxOps
    /\ call' = c
    /\ kwCursor' = c.cursor
    /\ pc' = "enter"
    /\ depth' = 1
    /\ exc' = "none"
    /\ log' = <<>>
    /\ cursorCalls' = 0
    /\ commitCalls' = 0
    /\ rollbackCalls' = 0
    /\ funcCursor' = "unset"
    /\ funcResult' = "none"
    /\ dbopExit' = "none"
    /\ rollbackOutcome' = "none"
    /\ lastResult' = "none"
    /\ UNCHANGED <<chain, committed, pending, nextId, trace>>
    /\ UNCHANGED notShopVars

\* Control enters the wrapper at `depth`: its before part runs, then it calls inward.
EnterLogging ==
    /\ pc = "enter" /\ depth < Innermost /\ Plugin(depth) = "logging"
    /\ log' = Append(log, <<"before", "logging">>)
    /\ depth' = depth + 1
    /\ UNCHANGED <<chain, pc, call, kwCursor, exc, cursorCalls, commitCalls, rollbackCalls,
                   funcCursor, funcResult, dbopExit, rollbackOutcome, lastResult,
                   committed, pending, nextId, trace>>
    /\ UNCHANGED notShopVars

EnterPydantic ==
    /\ pc = "enter" /\ depth < Innermost /\ Plugin(depth) = "pydantic"
    /\ IF ValidationPasses
          THEN /\ log' = Append(log, <<"before", "pydantic">>)
               /\ depth' = depth + 1
               /\ UNCHANGED <<pc, exc>>
          ELSE /\ log' = Append(log, <<"raise", "pydantic">>)
               /\ exc' = ValidationError
               /\ pc' = "unwind"
               /\ depth' = depth - 1
    /\ UNCHANGED <<chain, call, kwCursor, cursorCalls, commitCalls, rollbackCalls,
                   funcCursor, funcResult, dbopExit, rollbackOutcome, lastResult,
                   committed, pending, nextId, trace>>
    /\ UNCHANGED notShopVars

EnterDbop ==
    /\ pc = "enter" /\ depth < Innermost /\ Plugin(depth) = "dbop"
    /\ DbopBefore
    /\ log' = Append(log, <<"before", "dbop">>)
    /\ depth' = depth + 1
    /\ UNCHANGED <<chain, pc, call, exc, commitCalls, rollbackCalls,
                   funcCursor, funcResult, dbopExit, rollbackOutcome, lastResult,
                   committed, pending, nextId, trace>>
    /\ UNCHANGED notShopVars

\* The business function (a table's add): it receives kwargs["cursor"], inserts
\* one row through it, and returns or raises.
CallFunc(o) ==
    /\ pc = "enter" /\ depth = Innermost
    /\ funcCursor' = kwCursor
    /\ log' = Append(log, <<"call", "func">>)
    /\ IF o = "raise_before_insert"
          THEN UNCHANGED <<pending, nextId>>
          ELSE /\ pending' = pending \cup {nextId}
               /\ nextId' = nextId + 1
    /\ exc' = CASE o = "ok" -> "none"
                 [] o = "interrupt_after_insert" -> KeyboardInterrupt
                 [] OTHER -> BusinessError
    /\ funcResult' = IF o = "ok" THEN "returned" ELSE exc'
    /\ pc' = IF o = "ok" THEN "return" ELSE "unwind"
    /\ depth' = depth - 1
    /\ UNCHANGED <<chain, call, kwCursor, cursorCalls, commitCalls, rollbackCalls,
                   dbopExit, rollbackOutcome, lastResult, committed, trace>>
    /\ UNCHANGED notShopVars

\* The inner call returned into the wrapper at `depth`: its after part runs.
ExitLogging ==
    /\ pc = "return" /\ depth >= 1 /\ Plugin(depth) = "logging"
    /\ log' = Append(log, <<"after", "logging">>)
    /\ depth' = depth - 1
    /\ UNCHANGED <<chain, pc, call, kwCursor, exc, cursorCalls, commitCalls, rollbackCalls,
                   funcCursor, funcResult, dbopExit, rollbackOutcome, lastResult,
                   committed, pending, nextId, trace>>
    /\ UNCHANGED notShopVars

ExitPydantic ==
    /\ pc = "return" /\ depth >= 1 /\ Plugin(depth) = "pydantic"
    /\ log' = Append(log, <<"after", "pydantic">>)
    /\ depth' = depth - 1
    /\ UNCHANGED <<chain, pc, call, kwCursor, exc, cursorCalls, commitCalls, rollbackCalls,
                   funcCursor, funcResult, dbopExit, rollbackOutcome, lastResult,
                   committed, pending, nextId, trace>>
    /\ UNCHANGED notShopVars

ExitDbop ==
    /\ pc = "return" /\ depth >= 1 /\ Plugin(depth) = "dbop"
    /\ DbopAfter
    /\ log' = Append(log, <<IF pc' = "return" THEN "after" ELSE "raise", "dbop">>)
    /\ depth' = depth - 1
    /\ UNCHANGED <<chain, call, kwCursor, cursorCalls, funcCursor, funcResult,
                   lastResult, nextId, trace>>
    /\ UNCHANGED notShopVars

\* The inner call raised into the wrapper at `depth`: its error part runs and
\* the exception goes on outward.
UnwindLogging ==
    /\ pc = "unwind" /\ depth >= 1 /\ Plugin(depth) = "logging"
    /\ log' = Append(log, <<"error", "logging">>)
    /\ depth' = depth - 1
    /\ UNCHANGED <<chain, pc, call, kwCursor, exc, cursorCalls, commitCalls, rollbackCalls,
                   funcCursor, funcResult, dbopExit, rollbackOutcome, lastResult,
                   committed, pending, nextId, trace>>
    /\ UNCHANGED notShopVars

UnwindPydantic ==
    /\ pc = "unwind" /\ depth >= 1 /\ Plugin(depth) = "pydantic"
    /\ log' = Append(log, <<"error", "pydantic">>)
    /\ depth' = depth - 1
    /\ UNCHANGED <<chain, pc, call, kwCursor, exc, cursorCalls, commitCalls, rollbackCalls,
                   funcCursor, funcResult, dbopExit, rollbackOutcome, lastResult,
                   committed, pending, nextId, trace>>
    /\ UNCHANGED notShopVars

UnwindDbop ==
    /\ pc = "unwind" /\ depth >= 1 /\ Plugin(depth) = "dbop"
    /\ \E r \in RollbackOutcomes : DbopOnError(exc, r)
    /\ dbopExit' = exc'
    /\ log' = Append(log, <<"error", "dbop">>)
    /\ depth' = depth - 1
    /\ UNCHANGED <<chain, pc, call, kwCursor, cursorCalls, commitCalls,
                   funcCursor, funcResult, lastResult, committed, nextId, trace>>
    /\ UNCHANGED notShopVars

\* The outermost wrapper has finished: the caller sees the result or the exception.
\* The history keeps, per finished call, what the transaction claims need:
\*   "write"      returned, nothing committed by the plugin
\*   "autowrite"  returned, committed by the plugin
\*   "raised"     the business function raised an Exception and no rollback() failed
\*   "failed"     the call raised in any other way
FuncRaised == funcResult \notin {"none", "returned"}

CallEntry ==
    CASE pc = "return" /\ commitCalls = 0 -> "write"
      [] pc = "return" /\ commitCalls > 0 -> "autowrite"
      [] pc = "unwind" /\ funcResult = BusinessError
            /\ rollbackOutcome \notin {"Exception", "BaseException"} -> "raised"
      [] OTHER -> "failed"

FinishCall ==
    /\ pc \in {"return", "unwind"} /\ depth = 0
    /\ lastResult' = IF pc = "return" THEN "returned" ELSE exc
    /\ trace' = Append(trace, CallEntry)
    /\ pc' = "idle"
    /\ UNCHANGED <<chain, depth, call, kwCursor, exc, log, cursorCalls, commitCalls,
                   rollbackCalls, funcCursor, funcResult, dbopExit, rollbackOutcome,
                   committed, pending, nextId>>
    /\ UNCHANGED notShopVars

-----------------------------------------------------------------------------
(* The database manager as the caller uses it between handler calls         *)
(* (SqlDb.commit / SqlDb.rollback, delegating to the adapter's connection). *)

\* Rows a SELECT on the connection returns: committed rows plus its own pending ones.
Visible == committed \cup pending

DbCommit ==
    /\ pc = "idle"
    /\ Len(trace) < MaxOps
    /\ committed' = committed \cup pending
    /\ pending' = {}
    /\ trace' = Append(trace, "commit")
    /\ UNCHANGED <<chain, pc, depth, call, kwCursor, exc, log, cursorCalls, commitCalls,
                   rollbackCalls, funcCursor, funcResult, dbopExit, rollbackOutcome,
                   lastResult, nextId>>
    /\ UNCHANGED notShopVars

DbRollback ==
    /\ pc = "idle"
    /\ Len(trace) < MaxOps
    /\ pending' = {}
    /\ trace' = Append(trace, "rollback")
    /\ UNCHANGED <<chain, pc, depth, call, kwCursor, exc, log, cursorCalls, commitCalls,
                   rollbackCalls, funcCursor, funcResult, dbopExit, rollbackOutcome,
                   lastResult, committed, nextId>>
    /\ UNCHANGED notShopVars

ShopNext ==
    \/ \E c \in Calls : BeginCall(c)
    \/ EnterLogging
    \/ EnterPydantic
    \/ EnterDbop
    \/ \E o \in FuncOutcomes : CallFunc(o)
    \/ ExitLogging
    \/ ExitPydantic
    \/ ExitDbop
    \/ UnwindLogging
    \/ UnwindPydantic
    \/ UnwindDbop
    \/ FinishCall
    \/ DbCommit
    \/ DbRollback

-----------------------------------------------------------------------------
(***************************************************************************)
(* Part II.  Publisher                                                     *)
(***************************************************************************)

\* ---- Names -------------------------------------------------------------
\* An application name is a string; it is kept as its sequence of characters so
\* that name.startswith("/") is computed and not assumed.
NameA == <<"a">>
NameB == <<"b">>
NameSlash == <<"/", "x">>
ChannelChild == <<"/", "c", "h", "a", "n", "n", "e", "l">>
Names == {NameA, NameB, NameSlash}

\* Variant: no name is taken for a reserved one.
StartsWithSlash_Never(name) == FALSE

\* name.startswith("/")
StartsWithSlash(name) == Len(name) >= 1 /\ name[1] = "/"

\* ---- Application specs and AppManager.load ------------------------------
\* A spec "/path/to/module.py[:ClassName]"; cls = "none" when there is no colon.
SpecMain == [path |-> "/app.py", cls |-> "Main"]
SpecGhost == [path |-> "/ghost.py", cls |-> "none"]
AppSpecs == {SpecMain, SpecGhost}

\* The file system the specs refer to: one module file defining class Main.
ExistingFiles == {"/app.py"}
ClassesIn(path) == IF path = "/app.py" THEN {"Main"} ELSE {}
Stem(path) == IF path = "/app.py" THEN "app" ELSE "ghost"

\* AppManager._parse_spec: class name after the last colon, default "Main".
ClassName(spec) == IF spec.cls \in {"none", ""} THEN "Main" ELSE spec.cls

\* AppManager.load succeeds iff the spec is not empty, the file exists and the
\* module defines the class.
Loadable(spec) ==
    /\ spec.path # ""
    /\ spec.path \in ExistingFiles
    /\ ClassName(spec) \in ClassesIn(spec.path)

LoadMetadata(spec) ==
    [path |-> spec.path, module |-> Stem(spec.path), class |-> ClassName(spec)]

\* The instance app_class(*args, **kwargs): remembered by what built it.
Instance(spec, args, kwargs) ==
    [class |-> ClassName(spec), path |-> spec.path, args |-> args, kwargs |-> kwargs]

\* ---- Constructor arguments and their JSON form ---------------------------
\* A value is <<type, content>>.
StrOne == <<"str", "one">>
TupleVal == <<"tuple", "1,2">>
ListVal == <<"list", "1,2">>
NoKwargs == <<>>
OptionX == << <<"option", <<"str", "x">> >> >>

\* What add() may be given: (args, kwargs) pairs.
ArgChoices == { [args |-> <<StrOne>>, kwargs |-> OptionX],
                [args |-> <<TupleVal>>, kwargs |-> NoKwargs] }

\* json.loads(json.dumps(v)): a tuple is written as an array and read back as a list.
JsonValue(v) == IF v[1] = "tuple" THEN <<"list", v[2]>> ELSE v

JsonArgs(args) == [i \in 1..Len(args) |-> JsonValue(args[i])]
JsonKwargs(kwargs) == [i \in 1..Len(kwargs) |-> <<kwargs[i][1], JsonValue(kwargs[i][2])>>]

\* ---- Registry ------------------------------------------------------------
EmptyMap == [n \in {} |-> "none"]

\* The three dicts are filled and emptied together, so they share one
\* insertion order, kept in `order`.
Registry == [applications |-> applications, metadata |-> metadata,
             state |-> state, children |-> children, order |-> order]

EmptyRegistry == [applications |-> EmptyMap, metadata |-> EmptyMap,
                  state |-> EmptyMap, children |-> {ChannelChild}, order |-> <<>>]

RECURSIVE Without(_, _)
Without(seq, x) ==
    IF seq = <<>> THEN <<>>
    ELSE IF Head(seq) = x THEN Without(Tail(seq), x)
    ELSE <<Head(seq)>> \o Without(Tail(seq), x)

Put(f, k, v) == [n \in DOMAIN f \cup {k} |-> IF n = k THEN v ELSE f[n]]
Drop(f, k) == [n \in DOMAIN f \ {k} |-> f[n]]

\* Variant: add() without the check for an already registered name.
AddTo_NoDuplicateCheck(R, name, spec, args, kwargs) ==
    IF StartsWithSlash(name)
      THEN [reg |-> R, status |-> "ValueError:reserved"]
    ELSE IF ~Loadable(spec)
      THEN [reg |-> R, status |-> "LoadError"]
    ELSE [reg |-> [applications |-> Put(R.applications, name, Instance(spec, args, kwargs)),
                   metadata |-> Put(R.metadata, name, LoadMetadata(spec)),
                   state |-> Put(R.state, name,
                                 [spec |-> spec, args |-> args, kwargs |-> kwargs]),
                   children |-> R.children \cup {name},
                   order |-> Append(Without(R.order, name), name)],
          status |-> "registered"]

\* Publisher.add up to (not including) the autosave: the registry it leaves and
\* how it ends.
AddTo(R, name, spec, args, kwargs) ==
    IF name \in DOMAIN R.applications
      THEN [reg |-> R, status |-> "ValueError:registered"]
    ELSE IF StartsWithSlash(name)
      THEN [reg |-> R, status |-> "ValueError:reserved"]
    ELSE IF ~Loadable(spec)
      THEN [reg |-> R, status |-> "LoadError"]
    ELSE [reg |-> [applications |-> Put(R.applications, name, Instance(spec, args, kwargs)),
                   metadata |-> Put(R.metadata, name, LoadMetadata(spec)),
                   state |-> Put(R.state, name,
                                 [spec |-> spec, args |-> args, kwargs |-> kwargs]),
                   children |-> R.children \cup {name},
                   order |-> Append(R.order, name)],
          status |-> "registered"]

\* Variant: remove() forgets the saved-state entry.
RemoveFrom_KeepsState(R, name) ==
    [applications |-> Drop(R.applications, name),
     metadata |-> Drop(R.metadata, name),
     state |-> R.state,
     children |-> R.children \ {name},
     order |-> Without(R.order, name)]

\* Publisher.remove on a registered name.
RemoveFrom(R, name) ==
    [applications |-> Drop(R.applications, name),
     metadata |-> Drop(R.metadata, name),
     state |-> Drop(R.state, name),
     children |-> R.children \ {name},
     order |-> Without(R.order, name)]

\* Variant: the registry is emptied without detaching the children.
ClearRegistry_KeepsChildren(R) ==
    [applications |-> EmptyMap, metadata |-> EmptyMap, state |-> EmptyMap,
     children |-> R.children,
     order |-> <<>>]

\* Publisher._clear_registry
ClearRegistry(R) ==
    [applications |-> EmptyMap, metadata |-> EmptyMap, state |-> EmptyMap,
     children |-> R.children \ DOMAIN R.applications,
     order |-> <<>>]

\* ---- Snapshot file ---------------------------------------------------------
\* A file is missing, not JSON, or a JSON document with or without "apps";
\* version is the document's "version" member, 0 where there is none.
\* A JSON document is an object, an array, or a scalar (null, a number, true);
\* hasApps: it is an object whose "apps" member is a list.
MissingFile == [kind |-> "missing", shape |-> "none", hasApps |-> FALSE,
                version |-> 0, autosave |-> FALSE, apps |-> <<>>]
InvalidFile == [kind |-> "invalid", shape |-> "none", hasApps |-> FALSE,
                version |-> 0, autosave |-> FALSE, apps |-> <<>>]
NoAppsDoc == [kind |-> "json", shape |-> "object", hasApps |-> FALSE,
              version |-> 0, autosave |-> FALSE, apps |-> <<>>]
ArrayDoc == [kind |-> "json", shape |-> "array", hasApps |-> FALSE,
             version |-> 0, autosave |-> FALSE, apps |-> <<>>]
ScalarDoc == [kind |-> "json", shape |-> "scalar", hasApps |-> FALSE,
              version |-> 0, autosave |-> FALSE, apps |-> <<>>]

\* The head of loadstate: source.exists(), json.loads, and the test
\* `"apps" not in snapshot or not isinstance(snapshot["apps"], list)`; the
\* membership test on null, a number or a boolean raises TypeError.
ReadSnapshot(doc) ==
    IF doc.kind = "missing" THEN "not_found"
    ELSE IF doc.kind = "invalid" THEN "invalid"
    ELSE IF doc.shape = "scalar" THEN "TypeError"
    ELSE IF doc.shape = "object" /\ doc.hasApps THEN "ok"
    ELSE "malformed"

\* Variant: the snapshot entries lose the keyword arguments.
RECURSIVE AppsOf_DropsKwargs(_, _)
AppsOf_DropsKwargs(st, ord) ==
    IF ord = <<>> THEN <<>>
    ELSE << [name |-> Head(ord), spec |-> st[Head(ord)].spec,
             args |-> JsonArgs(st[Head(ord)].args),
             kwargs |-> <<>>] >> \o AppsOf_DropsKwargs(st, Tail(ord))

\* Publisher._write_state: {"version": 1, "autosave": ..., "apps": [...]} with one
\* entry {"name": name, **state} per item of _state, in dict order, encoded as JSON.
RECURSIVE AppsOf(_, _)
AppsOf(st, ord) ==
    IF ord = <<>> THEN <<>>
    ELSE << [name |-> Head(ord), spec |-> st[Head(ord)].spec,
             args |-> JsonArgs(st[Head(ord)].args),
             kwargs |-> JsonKwargs(st[Head(ord)].kwargs)] >> \o AppsOf(st, Tail(ord))

WriteState(R, auto) ==
    [kind |-> "json", shape |-> "object", hasApps |-> TRUE, version |-> 1,
     autosave |-> auto, apps |-> AppsOf(R.state, R.order)]

\* Snapshot entries somebody else may have put into the file.
EntryGoodA == [name |-> NameA, spec |-> SpecMain, args |-> <<StrOne>>, kwargs |-> NoKwargs]
EntryGhostB == [name |-> NameB, spec |-> SpecGhost, args |-> <<>>, kwargs |-> NoKwargs]
EntrySlash == [name |-> NameSlash, spec |-> SpecMain, args |-> <<>>, kwargs |-> NoKwargs]
ForeignEntries == {EntryGoodA, EntryGhostB, EntrySlash}

ForeignDocs ==
    {InvalidFile, NoAppsDoc, ArrayDoc, ScalarDoc} \cup
    { [kind |-> "json", shape |-> "object", hasApps |-> TRUE, version |-> 1,
       autosave |-> FALSE, apps |-> es] :
        es \in UNION { [1..n -> ForeignEntries] : n \in 0..MaxEntries } }

\* Variant: the loop re-raises an entry's exception whatever skip_missing says.
RECURSIVE LoadEntries_IgnoresSkip(_, _, _, _, _)
LoadEntries_IgnoresSkip(R, entries, i, skip, failed) ==
    IF i > Len(entries)
      THEN [reg |-> R, failed |-> failed, raised |-> FALSE]
      ELSE LET e == entries[i]
               r == AddTo(R, e.name, e.spec, e.args, e.kwargs)
           IN  IF r.status = "registered"
                 THEN LoadEntries_IgnoresSkip(r.reg, entries, i + 1, skip, failed)
               ELSE [reg |-> R, failed |-> failed, raised |-> TRUE]

\* The loop of loadstate over snapshot["apps"], from entry i on: each entry goes
\* through add(); a failing entry is recorded when skip_missing is set and ends
\* the load with its exception otherwise.
RECURSIVE LoadEntries(_, _, _, _, _)
LoadEntries(R, entries, i, skip, failed) ==
    IF i > Len(entries)
      THEN [reg |-> R, failed |-> failed, raised |-> FALSE]
      ELSE LET e == entries[i]
               r == AddTo(R, e.name, e.spec, e.args, e.kwargs)
           IN  IF r.status = "registered"
                 THEN LoadEntries(r.reg, entries, i + 1, skip, failed)
               ELSE IF skip
                 THEN LoadEntries(R, entries, i + 1, skip,
                                  Append(failed, [entry |-> e, error |-> r.status]))
               ELSE [reg |-> R, failed |-> failed, raised |-> TRUE]

\* ---- Operations ------------------------------------------------------------
Result(op, name, status, skipped) ==
    [op |-> op, name |-> name, status |-> status, skipped |-> skipped]

NoSave == [valid |-> FALSE, state |-> EmptyMap]

SetRegistry(R) ==
    /\ applications' = R.applications
    /\ metadata' = R.metadata
    /\ state' = R.state
    /\ children' = R.children
    /\ order' = R.order

\* Variant: the snapshot is taken of the registry as it was before the operation.
Save_BeforeChange(R) ==
    /\ stateFile' = WriteState(Registry, autosave)
    /\ saved' = [valid |-> TRUE, state |-> state]

\* savestate(): write the snapshot of registry R.
Save(R) ==
    /\ stateFile' = WriteState(R, autosave)
    /\ saved' = [valid |-> TRUE, state |-> R.state]

Writes(loop, end) == [loop |-> loop, end |-> end]

\* Variant: autosave stays as it is while the entries are added.
SuspendAutosave_Kept(prev) == prev

\* Publisher._suspend_autosave: the value of _autosave inside the with block;
\* the value before is put back on the way out, also when the block raises.
SuspendAutosave(prev) == FALSE

\* The finally clause of _suspend_autosave: _autosave is what it was before.
ResumeAutosave(prev, during) == prev

PubInit ==
    /\ applications = EmptyMap
    /\ metadata = EmptyMap
    /\ state = EmptyMap
    /\ children = {ChannelChild}
    /\ order = <<>>
    /\ autosave \in BOOLEAN
    /\ stateFile = MissingFile
    /\ pubResult = Result("init", <<>>, "ok", <<>>)
    /\ saved = NoSave
    /\ fresh = TRUE
    /\ snapshotWrites = Writes(0, 0)

\* Publisher(state_path=..., autosave=auto) in a new process, the file staying.
Restart(auto) ==
    /\ SetRegistry(EmptyRegistry)
    /\ autosave' = auto
    /\ fresh' = TRUE
    /\ pubResult' = Result("init", <<>>, "ok", <<>>)
    /\ snapshotWrites' = Writes(0, 0)
    /\ UNCHANGED <<stateFile, saved>>
    /\ UNCHANGED notPubVars

\* Publisher.add
Add(name, spec, ac) ==
    LET r == AddTo(Registry, name, spec, ac.args, ac.kwargs) IN
    /\ SetRegistry(r.reg)
    /\ IF r.status = "registered" /\ autosave
          THEN Save(r.reg) /\ snapshotWrites' = Writes(0, 1)
          ELSE UNCHANGED <<stateFile, saved>> /\ snapshotWrites' = Writes(0, 0)
    /\ pubResult' = Result("add", name, r.status, <<>>)
    /\ fresh' = FALSE
    /\ UNCHANGED autosave
    /\ UNCHANGED notPubVars

\* Publisher.remove
Remove(name) ==
    /\ IF name \in DOMAIN applications
          THEN /\ SetRegistry(RemoveFrom(Registry, name))
               /\ IF autosave THEN Save(RemoveFrom(Registry, name))
                              ELSE UNCHANGED <<stateFile, saved>>
               /\ snapshotWrites' = Writes(0, IF autosave THEN 1 ELSE 0)
               /\ pubResult' = Result("remove", name, "removed", <<>>)
          ELSE /\ UNCHANGED <<applications, metadata, state, children, order,
                              stateFile, saved>>
               /\ snapshotWrites' = Writes(0, 0)
               /\ pubResult' = Result("remove", name, "error", <<>>)
    /\ fresh' = FALSE
    /\ UNCHANGED autosave
    /\ UNCHANGED notPubVars

\* Publisher.unload_app: remove() behind its own check.
UnloadApp(name) ==
    /\ IF name \in DOMAIN applications
          THEN /\ SetRegistry(RemoveFrom(Registry, name))
               /\ IF autosave THEN Save(RemoveFrom(Registry, name))
                              ELSE UNCHANGED <<stateFile, saved>>
               /\ snapshotWrites' = Writes(0, IF autosave THEN 1 ELSE 0)
               /\ pubResult' = Result("unload_app", name, "unloaded", <<>>)
          ELSE /\ UNCHANGED <<applications, metadata, state, children, order,
                              stateFile, saved>>
               /\ snapshotWrites' = Writes(0, 0)
               /\ pubResult' = Result("unload_app", name, "error", <<>>)
    /\ fresh' = FALSE
    /\ UNCHANGED autosave
    /\ UNCHANGED notPubVars

\* Publisher.savestate
SaveState ==
    /\ Save(Registry)
    /\ pubResult' = Result("savestate", <<>>, "saved", <<>>)
    /\ snapshotWrites' = Writes(0, 1)
    /\ fresh' = FALSE
    /\ UNCHANGED <<applications, metadata, state, children, order, autosave>>
    /\ UNCHANGED notPubVars

\* Publisher.loadstate; autosave is suspended while the entries are added and
\* restored on the way out, so `autosave` is the same before and after. Every
\* add() of the loop writes a snapshot when _autosave is set at that moment.
LoadState(skip) ==
    /\ IF ReadSnapshot(stateFile) = "TypeError"
          THEN /\ pubResult' = Result("loadstate", <<>>, "raised", <<>>)
               /\ snapshotWrites' = Writes(0, 0)
               /\ UNCHANGED <<applications, metadata, state, children, order,
                              stateFile, saved>>
        ELSE IF ReadSnapshot(stateFile) # "ok"
          THEN /\ pubResult' = Result("loadstate", <<>>, "error", <<>>)
               /\ snapshotWrites' = Writes(0, 0)
               /\ UNCHANGED <<applications, metadata, state, children, order,
                              stateFile, saved>>
          ELSE LET during == SuspendAutosave(autosave)
                   r == LoadEntries(ClearRegistry(Registry), stateFile.apps, 1, skip, <<>>)
                   inLoop == IF during THEN Len(r.reg.order) ELSE 0
                   atEnd == IF ~r.raised /\ autosave THEN 1 ELSE 0
               IN  /\ SetRegistry(r.reg)
                   /\ pubResult' = IF r.raised
                                     THEN Result("loadstate", <<>>, "raised", <<>>)
                                     ELSE Result("loadstate", <<>>, "loaded", r.failed)
                   /\ snapshotWrites' = Writes(inLoop, atEnd)
                   /\ IF inLoop + atEnd > 0 THEN Save(r.reg)
                                            ELSE UNCHANGED <<stateFile, saved>>
    /\ autosave' = ResumeAutosave(autosave, SuspendAutosave(autosave))
    /\ UNCHANGED fresh
    /\ UNCHANGED notPubVars

\* Publisher.autosave(enabled)
SetAutosave(enabled) ==
    /\ autosave' = enabled
    /\ pubResult' = Result("autosave", <<>>, "ok", <<>>)
    /\ snapshotWrites' = Writes(0, 0)
    /\ fresh' = FALSE
    /\ UNCHANGED <<applications, metadata, state, children, order, stateFile, saved>>
    /\ UNCHANGED notPubVars

\* Somebody else writes the file at state_path.
WriteFile(doc) ==
    /\ stateFile' = doc
    /\ saved' = NoSave
    /\ pubResult' = Result("write_file", <<>>, "ok", <<>>)
    /\ snapshotWrites' = Writes(0, 0)
    /\ UNCHANGED <<applications, metadata, state, children, order, autosave, fresh>>
    /\ UNCHANGED notPubVars

PubNext ==
    \/ \E auto \in BOOLEAN : Restart(auto)
    \/ \E name \in Names, spec \in AppSpecs, ac \in ArgChoices : Add(name, spec, ac)
    \/ \E name \in Names : Remove(name)
    \/ \E name \in Names : UnloadApp(name)
    \/ SaveState
    \/ \E skip \in BOOLEAN : LoadState(skip)
    \/ \E enabled \in BOOLEAN : SetAutosave(enabled)
    \/ \E doc \in ForeignDocs : WriteFile(doc)

PubIdle == PubInit /\ autosave = TRUE

-----------------------------------------------------------------------------
(***************************************************************************)
(* Part III.  CLI channel                                                  *)
(***************************************************************************)
MaxTokens == 3        \* tokens of one command line
MaxSplitTokens == 4   \* tokens given to the splitter on its own

\* ---- Tokens ---------------------------------------------------------------
\* A token is a string, kept as its sequence of characters so that
\* startswith, `"=" in`, split and slicing are computed.
TokHelp == <<"-", "-", "h", "e", "l", "p">>
TokH == <<"-", "h">>
TokComplete == <<"-", "-", "c", "o", "m", "p", "l", "e", "t", "e">>
TokSlashList == <<"/", "l", "i", "s", "t">>
TokSlashNo == <<"/", "n", "o">>
TokList == <<"l", "i", "s", "t">>
TokShop == <<"s", "h", "o", "p">>
TokSystem == <<"_", "s", "y", "s", "t", "e", "m">>
TokSep == <<"-", "-">>
TokKey == <<"-", "-", "k">>
TokKeyEq == <<"-", "-", "k", "=", "v">>
TokX == <<"x">>

CliTokens == {TokHelp, TokH, TokComplete, TokSlashList, TokSlashNo, TokList,
              TokShop, TokSystem, TokSep, TokKey, TokKeyEq, TokX}
SplitTokens == {TokSep, TokKey, TokKeyEq, TokX, TokH}

ArgLists(tokens, n) == UNION { [1..k -> tokens] : k \in 0..n }

\* token.startswith("--")
StartsWithDashes(tok) == Len(tok) >= 2 /\ tok[1] = "-" /\ tok[2] = "-"

\* "=" in option
HasEq(option) == \E j \in 1..Len(option) : option[j] = "="

\* option.split("=", 1): the parts around the first "=".
FirstEq(option) ==
    CHOOSE j \in 1..Len(option) :
        option[j] = "=" /\ \A k \in 1..(j - 1) : option[k] # "="
KeyOf(option) == SubSeq(option, 1, FirstEq(option) - 1)
ValueOf(option) == SubSeq(option, FirstEq(option) + 1, Len(option))

\* ---- _split_cli_args ------------------------------------------------------
\* fate[i] tells what the loop did with tokens[i]: "positional", "separator",
\* "key" (an option that takes the next token), "value" (taken by the option
\* before it) or "keyvalue" (an option of the form --key=value).
SplitOk(pos, kw, fate) ==
    [status |-> "ok", positional |-> pos, keyword |-> kw, fate |-> fate]
SplitError(fate) ==
    [status |-> "ValueError", positional |-> <<>>, keyword |-> EmptyMap, fate |-> fate]

SplitPending ==
    [status |-> "pending", positional |-> <<>>, keyword |-> EmptyMap, fate |-> <<>>]

Literal(n) == [i \in 1..n |-> "positional"]

\* Variant: an option that has no token after it is taken as a positional.
RECURSIVE SplitFrom_KeyWithoutValueIsPositional(_, _, _, _, _)
SplitFrom_KeyWithoutValueIsPositional(tokens, i, pos, kw, fate) ==
    IF i > Len(tokens) THEN SplitOk(pos, kw, fate)
    ELSE LET token == tokens[i]
             option == SubSeq(token, 3, Len(token))
         IN  IF token = TokSep
               THEN SplitOk(pos \o SubSeq(tokens, i + 1, Len(tokens)), kw,
                            fate \o <<"separator">> \o Literal(Len(tokens) - i))
             ELSE IF StartsWithDashes(token)
               THEN IF option = <<>> THEN SplitError(fate)
                    ELSE IF HasEq(option)
                      THEN SplitFrom_KeyWithoutValueIsPositional(tokens, i + 1, pos,
                               Put(kw, KeyOf(option), ValueOf(option)),
                               Append(fate, "keyvalue"))
                    ELSE IF i + 1 > Len(tokens)
                      THEN SplitOk(Append(pos, token), kw, Append(fate, "positional"))
                    ELSE SplitFrom_KeyWithoutValueIsPositional(tokens, i + 2, pos,
                               Put(kw, option, tokens[i + 1]),
                               fate \o <<"key", "value">>)
             ELSE SplitFrom_KeyWithoutValueIsPositional(tokens, i + 1,
                               Append(pos, token), kw, Append(fate, "positional"))

\* The loop of _split_cli_args from token i on.
RECURSIVE SplitFrom(_, _, _, _, _)
SplitFrom(tokens, i, pos, kw, fate) ==
    IF i > Len(tokens) THEN SplitOk(pos, kw, fate)
    ELSE LET token == tokens[i]
             option == SubSeq(token, 3, Len(token))
         IN  IF token = TokSep
               THEN SplitOk(pos \o SubSeq(tokens, i + 1, Len(tokens)), kw,
                            fate \o <<"separator">> \o Literal(Len(tokens) - i))
             ELSE IF StartsWithDashes(token)
               THEN IF option = <<>> THEN SplitError(fate)
                    ELSE IF HasEq(option)
                      THEN SplitFrom(tokens, i + 1, pos,
                                     Put(kw, KeyOf(option), ValueOf(option)),
                                     Append(fate, "keyvalue"))
                    ELSE IF i + 1 > Len(tokens) THEN SplitError(fate)
                    ELSE SplitFrom(tokens, i + 2, pos,
                                   Put(kw, option, tokens[i + 1]),
                                   fate \o <<"key", "value">>)
             ELSE SplitFrom(tokens, i + 1, Append(pos, token), kw,
                            Append(fate, "positional"))

SplitCliArgs(tokens) == SplitFrom(tokens, 1, <<>>, EmptyMap, <<>>)

\* ---- What the Publisher shows to the channel ---------------------------------
\* Root commands: the methods of publisher.api whose name starts with "/".
RootMethods == {TokSlashList}

\* Handlers registered under the root router, as the CLI channel sees them.
HandlerSets == {{}, {TokList}, {TokList, TokShop, TokSystem}}

\* Methods routed by a handler's api.
MethodsOf(handler) == {TokList}

\* How an invoked callable ends: it returns, the validation of its arguments
\* fails, or the method raises.
CallOutcomes == {"ok", "ValidationError", "MethodError"}

\* ---- Results of a run -------------------------------------------------------
Line(tag, name) == [tag |-> tag, name |-> name]

NoCliCall == [kind |-> "none", target |-> <<>>, method |-> <<>>,
              positional |-> <<>>, keyword |-> EmptyMap]

CliCall(kind, target, method, sp) ==
    [kind |-> kind, target |-> target, method |-> method,
     positional |-> sp.positional, keyword |-> sp.keyword]

Ran(out, exit, invoked, raised) ==
    [out |-> out, exit |-> exit, call |-> invoked, raised |-> raised]

\* except Exception as e: print(f"Error: {e}"); sys.exit(1)
ErrorExit(e, invoked) == Ran(<<Line("Error", e)>>, "1", invoked, "none")

\* Variant: the tokens are split before the try block is entered.
TryInvoke_SplitOutsideTry(kind, target, method, found, tokens, o) ==
    LET sp == SplitCliArgs(tokens) IN
    IF sp.status # "ok" THEN Ran(<<>>, "1", NoCliCall, sp.status)
    ELSE IF ~found THEN ErrorExit("NotFound", NoCliCall)
    ELSE IF o = "ok"
      THEN Ran(<<Line("json", <<>>)>>, "0", CliCall(kind, target, method, sp), "none")
    ELSE ErrorExit(o, CliCall(kind, target, method, sp))

\* The try block shared by the three command handlers: look the callable up,
\* split the tokens, call, print the result; any Exception becomes an error line
\* and exit status 1.
TryInvoke(kind, target, method, found, tokens, o) ==
    LET sp == SplitCliArgs(tokens) IN
    IF ~found THEN ErrorExit("NotFound", NoCliCall)
    ELSE IF sp.status # "ok" THEN ErrorExit(sp.status, NoCliCall)
    ELSE IF o = "ok"
      THEN Ran(<<Line("json", <<>>)>>, "0", CliCall(kind, target, method, sp), "none")
    ELSE ErrorExit(o, CliCall(kind, target, method, sp))

\* CLIChannel._handle_root_command
HandleRootCommand(method, tokens, o) ==
    TryInvoke("root", <<>>, method, method \in RootMethods, tokens, o)

\* CLIChannel._handle_system_command with a method name
HandleSystemCommand(H, method, tokens, o) ==
    TryInvoke("system", TokSystem, method,
              TokSystem \in H /\ method \in MethodsOf(TokSystem), tokens, o)

\* CLIChannel._handle_business_command; method = <<>> stands for None.
HandleBusinessCommand(H, handler, method, tokens, o) ==
    IF handler \notin H
      THEN Ran(<<Line("Error: Handler not found", handler),
                 Line("Available", <<>>)>>, "0", NoCliCall, "none")
    ELSE IF method = <<>>
      THEN Ran(<<Line("help:handler", handler)>>, "0", NoCliCall, "none")
    ELSE TryInvoke("business", handler, method, method \in MethodsOf(handler), tokens, o)

\* CLIChannel._show_handler_help
ShowHandlerHelp(H, handler, o) ==
    IF StartsWithSlash(handler) /\ handler \in RootMethods
      THEN Ran(<<Line("help:root", handler)>>, "0", NoCliCall, "none")
    ELSE IF handler \in H
      THEN Ran(<<Line("help:handler", handler)>>, "0", NoCliCall, "none")
    ELSE HandleBusinessCommand(H, handler, <<>>, <<>>, o)

\* Variant: a root command is also recognised without its slash.
IsRootToken_SlashOptional(tok) ==
    StartsWithSlash(tok) \/ (<<"/">> \o tok) \in RootMethods

\* args[0].startswith("/")
IsRootToken(tok) == StartsWithSlash(tok)

\* CLIChannel.run
RunCli(H, args, o) ==
    IF args # <<>> /\ args[1] = TokComplete
      THEN Ran(<<Line("completion", <<>>)>>, "0", NoCliCall, "none")
    ELSE IF args = <<>> \/ args[1] \in {TokHelp, TokH}
      THEN Ran(<<Line("help:general", <<>>)>>, "0", NoCliCall, "none")
    ELSE IF IsRootToken(args[1])
      THEN IF args[1] \notin RootMethods
             THEN Ran(<<Line("Error: Unknown command", args[1]),
                        Line("Available", <<>>)>>, "0", NoCliCall, "none")
             ELSE HandleRootCommand(args[1], Tail(args), o)
    ELSE IF Len(args) = 1
      THEN ShowHandlerHelp(H, args[1], o)
    ELSE IF args[1] = TokSystem
      THEN HandleSystemCommand(H, args[2], SubSeq(args, 3, Len(args)), o)
    ELSE HandleBusinessCommand(H, args[1], args[2], SubSeq(args, 3, Len(args)), o)

\* ---- Actions ----------------------------------------------------------------
CliInit ==
    /\ cliHandlers \in HandlerSets
    /\ cliArgs = <<>>
    /\ cliOut = <<>>
    /\ cliExit = "none"
    /\ cliCall = NoCliCall
    /\ cliRaised = "none"
    /\ splitIn \in ArgLists(SplitTokens, MaxSplitTokens)
    /\ splitOut = SplitPending

CliIdle == CliInit /\ cliHandlers = {} /\ splitIn = <<>>

\* One process running main(): Publisher().run_cli() on the tokens args.
Run(args, o) ==
    LET r == RunCli(cliHandlers, args, o) IN
    /\ cliExit = "none"
    /\ cliArgs' = args
    /\ cliOut' = r.out
    /\ cliExit' = r.exit
    /\ cliCall' = r.call
    /\ cliRaised' = r.raised
    /\ UNCHANGED <<cliHandlers, splitIn, splitOut>>
    /\ UNCHANGED notCliVars

\* _split_cli_args applied to the tokens splitIn.
Split ==
    /\ splitOut.status = "pending"
    /\ splitOut' = SplitCliArgs(splitIn)
    /\ UNCHANGED <<cliHandlers, cliArgs, cliOut, cliExit, cliCall, cliRaised, splitIn>>
    /\ UNCHANGED notCliVars

\* A process runs one command line: nothing follows its exit.
CliNext ==
    /\ cliExit = "none"
    /\ \E args \in ArgLists(CliTokens, MaxTokens), o \in CallOutcomes : Run(args, o)

SplitNext == Split

-----------------------------------------------------------------------------
(***************************************************************************)
(* Part IV.  HTTP channel                                                  *)
(***************************************************************************)
\* ---- Method and handler names ---------------------------------------------
MList == <<"l", "i", "s", "t">>
MGet == <<"g", "e", "t">>
MSearch == <<"s", "e", "a", "r", "c", "h">>
MDescribe == <<"d", "e", "s", "c", "r", "i", "b", "e">>
MGetapp == <<"g", "e", "t", "a", "p", "p">>
MMembers == <<"m", "e", "m", "b", "e", "r", "s">>
MAdd == <<"a", "d", "d">>
HShop == <<"s", "h", "o", "p">>

\* Methods a business handler may route, and root commands of the Publisher.
ChildMethods == {MList, MGet, MSearch, MDescribe, MMembers, MAdd}
RootCommands == {<<"/">> \o MList, <<"/">> \o MGetapp, <<"/">> \o MAdd}
ChildNames == {HShop, ChannelChild}

\* name.lstrip("/") or name
RECURSIVE LStrip(_)
LStrip(name) ==
    IF name # <<>> /\ Head(name) = "/" THEN LStrip(Tail(name)) ELSE name
SafeName(name) == IF LStrip(name) = <<>> THEN name ELSE LStrip(name)

\* _http_method_for
HttpMethodFor(name) ==
    IF name \in {MList, MGet, MDescribe, MGetapp, MMembers} THEN "get" ELSE "post"

Route(verb, path, method) == [verb |-> verb, path |-> path, method |-> method]

\* The loop over tree["handlers"]: one route "/<safe_root>" per root method.
RootRoutes(tree) ==
    { Route(HttpMethodFor(SafeName(m)), <<SafeName(m)>>, m) : m \in tree.handlers }

\* The loop over tree["children"]: one route "/<safe_handler>/<method>" per
\* method of every child that has an instance with an api.
ChildRoutes(tree) ==
    IF ~tree.childHasApi THEN {}
    ELSE { Route(HttpMethodFor(m), <<SafeName(tree.child), m>>, m) : m \in tree.methods }

\* ---- Actions ----------------------------------------------------------------
NoTree == [handlers |-> {}, child |-> HShop, childHasApi |-> FALSE, methods |-> {}]

Trees == [handlers : SUBSET RootCommands, child : ChildNames,
          childHasApi : BOOLEAN, methods : SUBSET ChildMethods]

HttpInit ==
    /\ httpTree \in Trees
    /\ httpApp = "none"
    /\ httpRoutes = {}

HttpIdle == HttpInit /\ httpTree = NoTree

\* PublisherHTTP.create_fastapi_app, the endpoints built from the tree.
CreateFastapiApp ==
    /\ httpApp = "none"
    /\ httpApp' = "built"
    /\ httpRoutes' = RootRoutes(httpTree) \cup ChildRoutes(httpTree)
    /\ UNCHANGED httpTree
    /\ UNCHANGED notHttpVars

HttpNext == CreateFastapiApp

-----------------------------------------------------------------------------
(***************************************************************************)
(* Part V.  Publish plugin                                                 *)
(***************************************************************************)
\* ---- Scopes and channels -----------------------------------------------------
ChannelCodes == {"CLI", "SYS_HTTP", "HTTP"}
ScopeNames == {"internal", "public", "public_x", "custom"}

\* fnmatchcase(scope, pattern) for the patterns of DEFAULT_SCOPE_RULES.
FnMatch(scope, pattern) ==
    \/ scope = pattern
    \/ pattern = "public_*" /\ scope \in {"public_x"}

\* DEFAULT_SCOPE_RULES, in order.
DefaultScopeRules ==
    << [pattern |-> "internal", channels |-> {"CLI", "SYS_HTTP"}],
       [pattern |-> "public", channels |-> {"HTTP"}],
       [pattern |-> "public_*", channels |-> {"HTTP"}] >>

\* PublishPlugin._default_channels_for_scope: the first rule that matches.
DefaultChannelsForScope(scope) ==
    LET hits == { i \in 1..Len(DefaultScopeRules) : FnMatch(scope, DefaultScopeRules[i].pattern) }
    IN  IF hits = {} THEN {}
        ELSE DefaultScopeRules[CHOOSE i \in hits : \A j \in hits : i <= j].channels

\* A key of scope_channels that holds one of the characters * ? [ ] and is
\* not the catch-all "*".
IsPatternKey(key) == key = "public_*"

\* PublishPlugin._match_channel_entry: the entry under the scope's own name when
\* there is one, else the entry of a pattern key that matches, else a "*" entry
\* that is not empty.
MatchChannelEntry(scope, mapping) ==
    LET patterns == { k \in DOMAIN mapping \ {scope, "*"} : IsPatternKey(k) /\ FnMatch(scope, k) }
    IN  IF scope \in DOMAIN mapping THEN mapping[scope]
        ELSE IF patterns # {} THEN mapping[CHOOSE k \in patterns : TRUE]
        ELSE IF "*" \in DOMAIN mapping /\ mapping["*"] # {} THEN mapping["*"]
        ELSE {}

\* PublishPlugin._resolve_channels_for_scope: what the mapping gives, and the
\* defaults when it gives nothing.
ResolveChannelsForScope(scope, mapping) ==
    IF MatchChannelEntry(scope, mapping) # {} THEN MatchChannelEntry(scope, mapping)
    ELSE DefaultChannelsForScope(scope)

\* ---- Configurations of a method ------------------------------------------------
NoMap == [k \in {} |-> {}]
Unmarked == [scopes |-> <<>>, map |-> NoMap]
Internal == [scopes |-> <<"internal">>, map |-> NoMap]
Public == [scopes |-> <<"public">>, map |-> NoMap]
PublicX == [scopes |-> <<"public_x">>, map |-> NoMap]
Custom == [scopes |-> <<"custom">>, map |-> NoMap]
CustomCli == [scopes |-> <<"custom">>, map |-> [k \in {"custom"} |-> {"CLI"}]]
ScopeConfigs == {Unmarked, Internal, Public, PublicX, Custom, CustomCli}

ScopedMethods == {MList, MAdd, MSearch}

\* entry.metadata without a "scope" key.
NoScope == [marked |-> FALSE, tags |-> <<>>, channels |-> NoMap]

Elems(seq) == { seq[i] : i \in 1..Len(seq) }

\* PublishPlugin._build_scope_payload and _apply_scope_metadata: the payload
\* {"tags", "channels"} when there are scopes, no "scope" key otherwise.
ScopePayload(cfg) ==
    IF cfg.scopes = <<>> THEN NoScope
    ELSE [marked |-> TRUE, tags |-> cfg.scopes,
          channels |-> [sc \in Elems(cfg.scopes) |-> ResolveChannelsForScope(sc, cfg.map)]]

\* Variant: an entry without scope metadata passes no channel filter.
FilterEntry_UnmarkedHidden(meta, scopeFilter, channelFilter) ==
    IF scopeFilter = {} /\ channelFilter = "none" THEN TRUE
    ELSE IF scopeFilter # {} /\ (Elems(meta.tags) \cap scopeFilter = {}) THEN FALSE
    ELSE IF channelFilter = "none" THEN TRUE
    ELSE IF ~meta.marked THEN FALSE
    ELSE channelFilter \in UNION { meta.channels[sc] : sc \in Elems(meta.tags) }

\* PublishPlugin.filter_entry; scopeFilter = {} and channelFilter = "none" stand
\* for filters that were not given.
FilterEntry(meta, scopeFilter, channelFilter) ==
    IF scopeFilter = {} /\ channelFilter = "none" THEN TRUE
    ELSE IF scopeFilter # {} /\ (Elems(meta.tags) \cap scopeFilter = {}) THEN FALSE
    ELSE IF channelFilter = "none" THEN TRUE
    ELSE IF ~meta.marked THEN TRUE
    ELSE IF DOMAIN meta.channels = {} THEN TRUE
    ELSE LET allowed == UNION { meta.channels[sc] : sc \in Elems(meta.tags) }
         IN  IF allowed = {} THEN TRUE
             ELSE channelFilter \in allowed

\* The methods a filtered members()/describe() keeps: those whose entry passes
\* the plugin's filter_entry.
VisibleMethods(scopeFilter, channelFilter) ==
    { m \in ScopedMethods : FilterEntry(entryScope[m], scopeFilter, channelFilter) }

\* ---- Actions ----------------------------------------------------------------
NoView == [scopes |-> {}, channel |-> "none", methods |-> {}, asked |-> FALSE]

ScopeInit ==
    /\ entryCfg = [m \in ScopedMethods |-> Unmarked]
    /\ entryScope = [m \in ScopedMethods |-> NoScope]
    /\ view = NoView

ScopeIdle == ScopeInit

\* PublishPlugin.set_method_config(method, scopes=..., scope_channels=...): the
\* configuration is stored and the entry's scope metadata rebuilt.
SetMethodConfig(m, cfg) ==
    /\ entryCfg' = [entryCfg EXCEPT ![m] = cfg]
    /\ entryScope' = [entryScope EXCEPT ![m] = ScopePayload(cfg)]
    /\ UNCHANGED view
    /\ UNCHANGED notScopeVars

\* Publisher.handler_members(channel) / api.members(scopes=..., channel=...)
Members(scopeFilter, channelFilter) ==
    /\ view' = [scopes |-> scopeFilter, channel |-> channelFilter,
                methods |-> VisibleMethods(scopeFilter, channelFilter), asked |-> TRUE]
    /\ UNCHANGED <<entryCfg, entryScope>>
    /\ UNCHANGED notScopeVars

ScopeNext ==
    \/ \E m \in ScopedMethods, cfg \in ScopeConfigs : SetMethodConfig(m, cfg)
    \/ \E sf \in {{}, {"public"}}, ch \in ChannelCodes \cup {"none"} : Members(sf, ch)

-----------------------------------------------------------------------------
(***************************************************************************)
(* Part VI.  Runtime control of plugins                                    *)
(***************************************************************************)
\* Two instances of one class, two of its methods, the plugins of its router.
Instances == {"repo1", "repo2"}
ClassOf(x) == "Repository"
ToggleMethods == {"branches", "history"}
TogglePlugins == {"logging", "pydantic"}

\* Static configurations: every plugin enabled for every method, or logging
\* disabled for one method by the configuration given to plug().
AllEnabled == [disabled |-> {}]
HistoryDisabled == [disabled |-> {<<"history", "logging">>}]
ClassConfigs == {AllEnabled, HistoryDisabled}

\* What the static configuration says for a method and a plugin.
StaticEnabled(cfg, m, p) == <<m, p>> \notin cfg.disabled

\* Variant: the flag is kept under the class of the instance.
ToggleKey_ByClass(x, m, p) == <<ClassOf(x), m, p>>

\* The key a runtime flag is kept under.
ToggleKey(x, m, p) == <<x, m, p>>

ToggleKeys == (Instances \cup {"Repository"}) \X ToggleMethods \X TogglePlugins

\* is_plugin_enabled(instance, method, plugin): the runtime flag when one was
\* set, the static configuration otherwise.
IsPluginEnabled(x, m, p) ==
    IF toggles[ToggleKey(x, m, p)] = "unset"
      THEN StaticEnabled(classCfg, m, p)
      ELSE toggles[ToggleKey(x, m, p)] = "on"

NoPluginCall == [instance |-> "none", method |-> "none", acted |-> {}]

ToggleInit ==
    /\ classCfg \in ClassConfigs
    /\ toggles = [k \in ToggleKeys |-> "unset"]
    /\ lastCall = NoPluginCall

ToggleIdle == ToggleInit /\ classCfg = AllEnabled

\* set_plugin_enabled(instance, method, plugin, enabled=...)
SetPluginEnabled(x, m, p, enabled) ==
    /\ toggles' = [toggles EXCEPT ![ToggleKey(x, m, p)] = IF enabled THEN "on" ELSE "off"]
    /\ UNCHANGED <<classCfg, lastCall>>
    /\ UNCHANGED notToggleVars

\* A call of method m on instance x through the router: the enabled plugins act.
CallMethod(x, m) ==
    /\ lastCall' = [instance |-> x, method |-> m,
                    acted |-> { p \in TogglePlugins : IsPluginEnabled(x, m, p) }]
    /\ UNCHANGED <<classCfg, toggles>>
    /\ UNCHANGED notToggleVars

ToggleNext ==
    \/ \E x \in Instances, m \in ToggleMethods, p \in TogglePlugins, en \in BOOLEAN :
          SetPluginEnabled(x, m, p, en)
    \/ \E x \in Instances, m \in ToggleMethods : CallMethod(x, m)

-----------------------------------------------------------------------------
(***************************************************************************)
(* Part VII.  Flags mini-language of the logging plugin                    *)
(***************************************************************************)
LogFlags == {"enabled", "before", "after", "time"}

\* A token is a flag name, or a flag name followed by ":off".
FlagToken(f, on) == [flag |-> f, on |-> on]
FlagTokens == { FlagToken(f, on) : f \in LogFlags, on \in BOOLEAN }

\* Without any token the plugin is disabled and shows the call before it runs.
FlagDefaults == [f \in LogFlags |-> f = "before"]

\* Flags strings that name a flag at most once.
FlagStrings ==
    { t \in ArgLists(FlagTokens, MaxFlagTokens) :
        \A i, j \in 1..Len(t) : t[i].flag = t[j].flag => i = j }

\* The tokens of a string applied to a configuration, left to right.
RECURSIVE ParseFlags(_, _)
ParseFlags(tokens, base) ==
    IF tokens = <<>> THEN base
    ELSE ParseFlags(Tail(tokens), [base EXCEPT ![Head(tokens).flag] = Head(tokens).on])

\* Variant: the override of a method starts from the defaults of the plugin.
ResolveMethodFlags_FromDefaults(globalTokens, overrideTokens) ==
    ParseFlags(overrideTokens, FlagDefaults)

\* Configuration of a method: the global flags, then its own tokens.
ResolveMethodFlags(globalTokens, overrideTokens) ==
    ParseFlags(overrideTokens, ParseFlags(globalTokens, FlagDefaults))

FlagsPending == [done |-> FALSE, flags |-> FlagDefaults]

FlagsInit ==
    /\ flagGlobal \in FlagStrings
    /\ flagOverride \in FlagStrings
    /\ flagResolved = FlagsPending

FlagsIdle == flagGlobal = <<>> /\ flagOverride = <<>> /\ flagResolved = FlagsPending

\* plug("logging", flags=..., method_config={method: ...}) resolves the method.
PlugLogging ==
    /\ ~flagResolved.done
    /\ flagResolved' = [done |-> TRUE, flags |-> ResolveMethodFlags(flagGlobal, flagOverride)]
    /\ UNCHANGED <<flagGlobal, flagOverride>>
    /\ UNCHANGED notFlagsVars

FlagsNext == PlugLogging

-----------------------------------------------------------------------------
(***************************************************************************)
(* Part VIII.  Publish plugin: configuration levels and channel codes      *)
(***************************************************************************)
\* str.upper() on the channel codes in use.
Upper(code) == IF code = "http" THEN "HTTP" ELSE code

\* PublishPlugin._validate_channel_code raises ValueError on the other codes.
ValidChannelCode(code) == code = Upper(code)

\* _normalize_channel_list / _normalize_scope_channels return (do not raise).
ValidChannelMap(map) == \A k \in DOMAIN map : \A code \in map[k] : ValidChannelCode(code)

PublicCli == [k \in {"public"} |-> {"CLI"}]
PublicLower == [k \in {"public"} |-> {"http"}]

\* Keyword arguments of set_config / set_method_config: scopes, scope_channels
\* and the alias channels ("none" when it is not given).
Config(scopes, map, alias) == [scopes |-> scopes, map |-> map, alias |-> alias]
PublishConfigs ==
    { Config(<<>>, NoMap, "none"),
      Config(<<"public">>, NoMap, "none"),
      Config(<<"public">>, PublicCli, "none"),
      Config(<<"public">>, PublicLower, "none"),
      Config(<<"public">>, NoMap, "http") }

\* Metadata a method is decorated with.
MetadataChoices == { Unmarked, Public, [scopes |-> <<"public">>, map |-> PublicLower] }

PublishMethods == {MList, MAdd}

\* PublishPlugin._promote_channel_alias: the alias is normalised, which
\* validates it, and added to the "*" entry of scope_channels.
PromoteChannelAlias(cfg) ==
    IF cfg.alias = "none" THEN [raised |-> FALSE, scopes |-> cfg.scopes, map |-> cfg.map]
    ELSE IF ~ValidChannelCode(cfg.alias) THEN [raised |-> TRUE, scopes |-> cfg.scopes, map |-> cfg.map]
    ELSE [raised |-> FALSE, scopes |-> cfg.scopes,
          map |-> [k \in DOMAIN cfg.map \cup {"*"} |->
                     IF k = "*"
                       THEN (IF "*" \in DOMAIN cfg.map THEN cfg.map["*"] ELSE {}) \cup {cfg.alias}
                       ELSE cfg.map[k]]]

\* PublishPlugin._merge_channel_maps: the keys of extra replace those of base.
MergeChannelMaps(base, extra) ==
    [k \in DOMAIN base \cup DOMAIN extra |-> IF k \in DOMAIN extra THEN extra[k] ELSE base[k]]

NotConfigured == [given |-> FALSE, scopes |-> <<>>, map |-> NoMap]
NotDecorated == [decorated |-> FALSE, scopes |-> <<>>, map |-> NoMap]

\* PublishPlugin._resolve_scopes: the method's configured scopes when it has
\* any configuration, else the scopes of its metadata, else the global ones.
ResolveScopes(hc, eo, gc, m) ==
    IF hc[m].given THEN hc[m].scopes
    ELSE IF eo[m].scopes # <<>> THEN eo[m].scopes
    ELSE gc.scopes

\* PublishPlugin._resolve_channels: the three maps are normalised, merged
\* (global, then metadata, then method) and read for every scope.
ResolveChannels(hc, eo, gc, m, scopes) ==
    IF ~ValidChannelMap(gc.map) \/ ~ValidChannelMap(hc[m].map)
      THEN [raised |-> TRUE, channels |-> NoMap]
      ELSE LET merged == MergeChannelMaps(MergeChannelMaps(gc.map, eo[m].map), hc[m].map)
           IN  [raised |-> FALSE,
                channels |-> [sc \in Elems(scopes) |-> ResolveChannelsForScope(sc, merged)]]

\* PublishPlugin._build_scope_payload
BuildScopePayload(hc, eo, gc, m) ==
    LET scopes == ResolveScopes(hc, eo, gc, m)
        resolved == ResolveChannels(hc, eo, gc, m, scopes)
    IN  IF scopes = <<>> THEN [raised |-> FALSE, payload |-> NoScope]
        ELSE IF resolved.raised THEN [raised |-> TRUE, payload |-> NoScope]
        ELSE [raised |-> FALSE,
              payload |-> [marked |-> TRUE, tags |-> scopes, channels |-> resolved.channels]]

\* PublishPlugin._refresh_entries over the names todo, in order: every entry
\* gets its payload written or removed; an exception ends the loop.
RECURSIVE RefreshEntries(_, _, _, _, _)
RefreshEntries(todo, meta, hc, eo, gc) ==
    IF todo = <<>> THEN [raised |-> FALSE, meta |-> meta]
    ELSE LET built == BuildScopePayload(hc, eo, gc, Head(todo))
         IN  IF built.raised THEN [raised |-> TRUE, meta |-> meta]
             ELSE RefreshEntries(Tail(todo), [meta EXCEPT ![Head(todo)] = built.payload],
                                 hc, eo, gc)

PublishOp(op, method, lower, raised) ==
    [op |-> op, method |-> method, lower |-> lower, raised |-> raised]

\* A channel code that is not uppercase is among the arguments.
SuppliesLower(cfg) == ~ValidChannelMap(cfg.map) \/ (cfg.alias # "none" /\ ~ValidChannelCode(cfg.alias))

PublishInit ==
    /\ globalConfig = [scopes |-> <<>>, map |-> NoMap]
    /\ handlerConfigs = [m \in PublishMethods |-> NotConfigured]
    /\ entryOverrides = [m \in PublishMethods |-> NotDecorated]
    /\ pluginEntries = <<>>
    /\ entryMetadata = [m \in PublishMethods |-> NoScope]
    /\ publishOp = PublishOp("none", <<>>, FALSE, FALSE)

PublishIdle == PublishInit

\* PublishPlugin.on_decore for a method decorated with metadata md.
OnDecore(m, md) ==
    /\ m \notin Elems(pluginEntries)
    /\ pluginEntries' = Append(pluginEntries, m)
    /\ IF ~ValidChannelMap(md.map)
         THEN /\ entryOverrides' = [entryOverrides EXCEPT
                                      ![m] = [decorated |-> FALSE, scopes |-> md.scopes, map |-> NoMap]]
              /\ entryMetadata' = entryMetadata
              /\ publishOp' = PublishOp("on_decore", m, TRUE, TRUE)
         ELSE LET eo == [entryOverrides EXCEPT
                           ![m] = [decorated |-> TRUE, scopes |-> md.scopes, map |-> md.map]]
                  done == RefreshEntries(<<m>>, entryMetadata, handlerConfigs, eo, globalConfig)
              IN  /\ entryOverrides' = [eo EXCEPT ![m].decorated = ~done.raised]
                  /\ entryMetadata' = done.meta
                  /\ publishOp' = PublishOp("on_decore", m, FALSE, done.raised)
    /\ UNCHANGED <<globalConfig, handlerConfigs>>
    /\ UNCHANGED notPublishVars

\* PublishPlugin.set_config(**cfg): alias promoted, configuration stored by the
\* base class, every entry refreshed.
SetConfig(cfg) ==
    LET promoted == PromoteChannelAlias(cfg)
        gc == [scopes |-> promoted.scopes, map |-> promoted.map]
        done == RefreshEntries(pluginEntries, entryMetadata, handlerConfigs, entryOverrides, gc)
    IN  /\ IF promoted.raised
             THEN /\ UNCHANGED <<globalConfig, entryMetadata>>
                  /\ publishOp' = PublishOp("set_config", <<>>, SuppliesLower(cfg), TRUE)
             ELSE /\ globalConfig' = gc
                  /\ entryMetadata' = done.meta
                  /\ publishOp' = PublishOp("set_config", <<>>, SuppliesLower(cfg), done.raised)
        /\ UNCHANGED <<handlerConfigs, entryOverrides, pluginEntries>>
        /\ UNCHANGED notPublishVars

\* PublishPlugin.set_method_config(m, **cfg): alias promoted, configuration
\* stored by the base class, the entry of m refreshed when there is one.
SetMethodConfigLevels(m, cfg) ==
    LET promoted == PromoteChannelAlias(cfg)
        hc == [handlerConfigs EXCEPT
                 ![m] = [given |-> TRUE, scopes |-> promoted.scopes, map |-> promoted.map]]
        todo == IF m \in Elems(pluginEntries) THEN <<m>> ELSE <<>>
        done == RefreshEntries(todo, entryMetadata, hc, entryOverrides, globalConfig)
    IN  /\ IF promoted.raised
             THEN /\ UNCHANGED <<handlerConfigs, entryMetadata>>
                  /\ publishOp' = PublishOp("set_method_config", m, SuppliesLower(cfg), TRUE)
             ELSE /\ handlerConfigs' = hc
                  /\ entryMetadata' = done.meta
                  /\ publishOp' = PublishOp("set_method_config", m, SuppliesLower(cfg), done.raised)
        /\ UNCHANGED <<globalConfig, entryOverrides, pluginEntries>>
        /\ UNCHANGED notPublishVars

PublishNext ==
    \/ \E m \in PublishMethods, md \in MetadataChoices : OnDecore(m, md)
    \/ \E cfg \in PublishConfigs : SetConfig(cfg)
    \/ \E m \in PublishMethods, cfg \in PublishConfigs : SetMethodConfigLevels(m, cfg)

-----------------------------------------------------------------------------
(***************************************************************************)
(* Part IX.  Connections of the database manager                           *)
(***************************************************************************)
Threads == {"main", "worker1", "worker2"}
DbCalls == {"cursor", "commit", "rollback"}

\* Variant: the connection is an attribute shared by all threads.
LocalSlot_Shared(t) == "shared"

\* threading.local(): attributes are kept per thread.
LocalSlot(t) == t

LocalSlots == Threads \cup {"shared"}

ConnInit ==
    /\ threadConn = [sl \in LocalSlots |-> 0]
    /\ connCreator = <<>>
    /\ dbUses = {}

ConnIdle == ConnInit

\* SqlDb.cursor / commit / rollback on thread t, through the adapter and the
\* connection property: the thread's connection, made by adapter.connect()
\* when the thread has none.
DbCall(t, c) ==
    LET sl == LocalSlot(t)
        conn == IF threadConn[sl] = 0 THEN Len(connCreator) + 1 ELSE threadConn[sl]
    IN  /\ threadConn' = [threadConn EXCEPT ![sl] = conn]
        /\ connCreator' = IF threadConn[sl] = 0 THEN Append(connCreator, t) ELSE connCreator
        /\ dbUses' = dbUses \cup {<<t, conn, c>>}
        /\ UNCHANGED notConnVars

ConnNext == \E t \in Threads, c \in DbCalls : DbCall(t, c)

-----------------------------------------------------------------------------
(***************************************************************************)
(* Part X.  Channels of one scope from the three levels                    *)
(***************************************************************************)
ScopeKeys == {"public_x", "public_*", "*"}

\* scope_channels mappings of one level: any keys, each with no channel or
\* with the one channel code that tells the level.
LevelMaps(code) == UNION { [ks -> {{}, {code}}] : ks \in SUBSET ScopeKeys }

ResolvedScopes == {"public_x", "custom"}

ResolvePending == [done |-> FALSE, channels |-> {}]

ResolveInit ==
    /\ resolveIn \in [scope : ResolvedScopes, global : LevelMaps("CLI"),
                      metadata : LevelMaps("MCP"), method : LevelMaps("WS")]
    /\ resolveOut = ResolvePending

ResolveIdle ==
    /\ resolveIn = [scope |-> "custom", global |-> NoMap, metadata |-> NoMap, method |-> NoMap]
    /\ resolveOut = ResolvePending

\* PublishPlugin._resolve_channels for one scope tag: the three maps merged,
\* global first, then metadata, then method, and read for the scope.
ResolveScopeChannels ==
    /\ ~resolveOut.done
    /\ resolveOut' =
         [done |-> TRUE,
          channels |-> ResolveChannelsForScope(
                         resolveIn.scope,
                         MergeChannelMaps(MergeChannelMaps(resolveIn.global, resolveIn.metadata),
                                          resolveIn.method))]
    /\ UNCHANGED resolveIn
    /\ UNCHANGED notResolveVars

ResolveNext == ResolveScopeChannels

-----------------------------------------------------------------------------
(***************************************************************************)
(* Specifications                                                          *)
(***************************************************************************)
\* Part I alone: handler calls against one table.
InitShop == ShopInit /\ PubIdle /\ CliIdle /\ HttpIdle /\ ScopeIdle /\ ToggleIdle /\ FlagsIdle /\ PublishIdle /\ ConnIdle /\ ResolveIdle
SpecShop == InitShop /\ [][ShopNext]_vars

\* Part II alone: Publisher operations.
InitPub == PubInit /\ ShopIdle /\ CliIdle /\ HttpIdle /\ ScopeIdle /\ ToggleIdle /\ FlagsIdle /\ PublishIdle /\ ConnIdle /\ ResolveIdle
SpecPub == InitPub /\ [][PubNext]_vars

\* Part III, one command line given to the CLI channel by each process.
InitCli == CliInit /\ splitIn = <<>> /\ ShopIdle /\ PubIdle /\ HttpIdle /\ ScopeIdle /\ ToggleIdle /\ FlagsIdle /\ PublishIdle /\ ConnIdle /\ ResolveIdle
SpecCli == InitCli /\ [][CliNext]_vars

\* Part III, the token splitter applied to bounded token lists.
InitSplit == CliInit /\ cliHandlers = {} /\ ShopIdle /\ PubIdle /\ HttpIdle /\ ScopeIdle /\ ToggleIdle /\ FlagsIdle /\ PublishIdle /\ ConnIdle /\ ResolveIdle
SpecSplit == InitSplit /\ [][SplitNext]_vars

\* Part IV alone: the HTTP adapter building its app from one handler tree.
InitHttp == HttpInit /\ ShopIdle /\ PubIdle /\ CliIdle /\ ScopeIdle /\ ToggleIdle /\ FlagsIdle /\ PublishIdle /\ ConnIdle /\ ResolveIdle
SpecHttp == InitHttp /\ [][HttpNext]_vars

\* Part V alone: the scope metadata of one router and the views taken of it.
InitScope == ScopeInit /\ ShopIdle /\ PubIdle /\ CliIdle /\ HttpIdle /\ ToggleIdle /\ FlagsIdle /\ PublishIdle /\ ConnIdle /\ ResolveIdle
SpecScope == InitScope /\ [][ScopeNext]_vars

\* Part VI alone: runtime flags of two instances of one class.
InitToggle ==
    ToggleInit /\ ShopIdle /\ PubIdle /\ CliIdle /\ HttpIdle /\ ScopeIdle /\ FlagsIdle /\ PublishIdle /\ ConnIdle /\ ResolveIdle
SpecToggle == InitToggle /\ [][ToggleNext]_vars

\* Part VII alone: one method's flags resolved from drawn flags strings.
InitFlags ==
    FlagsInit /\ ShopIdle /\ PubIdle /\ CliIdle /\ HttpIdle /\ ScopeIdle /\ ToggleIdle /\ PublishIdle /\ ConnIdle /\ ResolveIdle
SpecFlags == InitFlags /\ [][FlagsNext]_vars

\* Part VIII alone: one plugin, two methods, configuration at three levels.
InitPublish ==
    PublishInit /\ ShopIdle /\ PubIdle /\ CliIdle /\ HttpIdle /\ ScopeIdle /\ ToggleIdle /\ FlagsIdle /\ ConnIdle /\ ResolveIdle
SpecPublish == InitPublish /\ [][PublishNext]_vars

\* Part IX alone: three threads sharing one SqlDb.
InitConn ==
    ConnInit /\ ShopIdle /\ PubIdle /\ CliIdle /\ HttpIdle /\ ScopeIdle /\ ToggleIdle /\ FlagsIdle /\ PublishIdle /\ ResolveIdle
SpecConn == InitConn /\ [][ConnNext]_vars

\* Part X alone: one scope resolved from drawn scope_channels of three levels.
InitResolve ==
    ResolveInit /\ ShopIdle /\ PubIdle /\ CliIdle /\ HttpIdle /\ ScopeIdle /\ ToggleIdle /\ FlagsIdle /\ PublishIdle /\ ConnIdle
SpecResolve == InitResolve /\ [][ResolveNext]_vars

-----------------------------------------------------------------------------
(***************************************************************************)
(* Claims about Part I                                                     *)
(***************************************************************************)

\* C1: in both shops' chains, a call with an invalid argument raises before the
\* provider's cursor(), commit() or rollback() has been invoked even once.
C1_ValidationBeforeResource ==
    (exc = ValidationError \/ lastResult = ValidationError)
        => (cursorCalls = 0 /\ commitCalls = 0 /\ rollbackCalls = 0)

\* C2: a successful call observes the before-hooks in attachment order, then the
\* business function, then the after-hooks in reverse attachment order.
ExpectedLog ==
    [i \in 1..Len(chain) |-> <<"before", chain[i]>>]
        \o << <<"call", "func">> >>
        \o [i \in 1..Len(chain) |-> <<"after", chain[Len(chain) + 1 - i]>>]

C2_ChainOrder == (pc = "idle" /\ lastResult = "returned") => log = ExpectedLog

C2_Witness ==
    /\ pc = "idle" /\ lastResult = "returned"
    /\ chain = DemoShopChain
    /\ log[1] = <<"before", "logging">> /\ log[2] = <<"before", "dbop">>
    /\ log[6] = <<"after", "dbop">> /\ log[7] = <<"after", "logging">>

C4_CommitIffAutocommit ==
    /\ (funcResult = "returned" /\ dbopExit # "none")
         => commitCalls = (IF call.autocommit = "True" THEN 1 ELSE 0)
    /\ (funcResult = "returned" /\ dbopExit = "none") => commitCalls = 0
    /\ FuncRaised => commitCalls = 0
    /\ (dbopExit = "returned" \/ lastResult = "returned") => rollbackCalls = 0

C4_Witness ==
    /\ lastResult = "returned"
    /\ call.autocommit = "True"
    /\ commitCalls = 1
    /\ rollbackCalls = 0

\* C5: with kwargs' cursor absent or None the plugin obtains one cursor from the
\* provider and the function receives it; a cursor supplied by the caller reaches
\* the function as it is and the provider's cursor() is not called.
C5_CursorInjection ==
    funcCursor # "unset" =>
        IF call.cursor \in {"absent", "None"}
          THEN cursorCalls = 1 /\ funcCursor = ProviderCursor
          ELSE cursorCalls = 0 /\ funcCursor = call.cursor

C5_Witness ==
    /\ call.cursor = "None"
    /\ funcCursor = ProviderCursor
    /\ cursorCalls = 1
    /\ lastResult = "returned"

\* C6: starting from an empty table, writes issued without autocommit and then
\* one explicit commit are all visible and committed; if instead a write raises
\* before the commit, no row (not even an earlier uncommitted one) is visible
\* after the plugin's rollback.
OnlyWritesBefore(n) == \A i \in 1..(n - 1) : trace[i] = "write"

C6_Atomicity ==
    LET n == Len(trace) IN
    (pc = "idle" /\ n >= 1 /\ OnlyWritesBefore(n)) =>
        /\ trace[n] = "commit" => (Cardinality(committed) = n - 1 /\ Visible = committed)
        /\ trace[n] = "raised" => Visible = {}

C6_Witness ==
    /\ pc = "idle"
    /\ trace = <<"write", "write", "commit">>
    /\ Cardinality(Visible) = 2

-----------------------------------------------------------------------------
(***************************************************************************)
(* Claims about Part II                                                    *)
(***************************************************************************)

RegistryVars == <<applications, metadata, state, children, order>>

\* C7: names are unique; add() with a name that is already registered raises
\* ValueError and leaves applications, metadata, saved state and the root
\* router's children as they were.
C7_DuplicateAddRejected ==
    [][ /\ Len(order') = Cardinality(DOMAIN applications')
        /\ (pubResult'.op = "add" /\ pubResult'.name \in DOMAIN applications)
             => (pubResult'.status = "ValueError:registered" /\ UNCHANGED RegistryVars)
      ]_vars

C7_Witness ==
    /\ pubResult.op = "add"
    /\ pubResult.status = "ValueError:registered"
    /\ pubResult.name \in DOMAIN applications

\* C8: no registered name ever starts with "/": add() with such a name raises
\* ValueError and registers nothing, also for a snapshot entry met by loadstate.
Reserved(name) == Len(name) >= 1 /\ name[1] = "/"

C8_NoSlashNames ==
    /\ \A n \in DOMAIN applications \cup DOMAIN metadata \cup DOMAIN state : ~Reserved(n)
    /\ \A n \in children : Reserved(n) => n = ChannelChild
    /\ (pubResult.op = "add" /\ Reserved(pubResult.name))
         => pubResult.status = "ValueError:reserved"
    /\ \A i \in 1..Len(pubResult.skipped) :
         Reserved(pubResult.skipped[i].entry.name)
            => pubResult.skipped[i].error = "ValueError:reserved"

C8_Witness ==
    /\ pubResult.op = "loadstate"
    /\ pubResult.status = "loaded"
    /\ \E i \in 1..Len(pubResult.skipped) : pubResult.skipped[i].entry.name = NameSlash
    /\ NameA \in DOMAIN applications

\* C9: remove(name) of a registered application removes exactly that name from
\* applications, metadata, saved state and the root router's children and leaves
\* every other application as it was; for an unregistered name it returns an
\* error result and changes nothing.
C9_RemoveFrame ==
    [][ pubResult'.op = "remove" =>
          LET n == pubResult'.name IN
          IF n \in DOMAIN applications
            THEN /\ pubResult'.status = "removed"
                 /\ DOMAIN applications' = DOMAIN applications \ {n}
                 /\ DOMAIN metadata' = DOMAIN metadata \ {n}
                 /\ DOMAIN state' = DOMAIN state \ {n}
                 /\ children' = children \ {n}
                 /\ \A m \in DOMAIN applications \ {n} :
                        /\ applications'[m] = applications[m]
                        /\ metadata'[m] = metadata[m]
                        /\ state'[m] = state[m]
            ELSE /\ pubResult'.status = "error"
                 /\ UNCHANGED RegistryVars
      ]_vars

C9_Witness ==
    /\ pubResult.op = "remove"
    /\ pubResult.status = "removed"
    /\ DOMAIN applications # {}
    /\ DOMAIN applications = DOMAIN state

\* C10 (as stated): loadstate in a fresh Publisher, from the file a savestate
\* wrote, yields the same names, each instantiated from the same spec with the
\* same positional and keyword arguments as at the time of the save.
LoadsSavedFile ==
    /\ fresh
    /\ saved.valid
    /\ pubResult'.op = "loadstate"
    /\ pubResult'.status = "loaded"

C10_Original ==
    [][ LoadsSavedFile =>
          /\ DOMAIN applications' = DOMAIN saved.state
          /\ \A n \in DOMAIN saved.state :
                /\ state'[n].spec = saved.state[n].spec
                /\ applications'[n].args = saved.state[n].args
                /\ applications'[n].kwargs = saved.state[n].kwargs
      ]_vars

\* C10 (amended): the names and specs are the same, and the arguments are the
\* saved ones as they read back from JSON: equal for JSON-native values, a tuple
\* comes back as a list.
ReadBack(v) == IF v[1] = "tuple" THEN <<"list", v[2]>> ELSE v

C10_RoundTrip ==
    [][ LoadsSavedFile =>
          /\ DOMAIN applications' = DOMAIN saved.state
          /\ DOMAIN state' = DOMAIN saved.state
          /\ \A n \in DOMAIN saved.state :
                /\ state'[n].spec = saved.state[n].spec
                /\ applications'[n].path = saved.state[n].spec.path
                /\ Len(applications'[n].args) = Len(saved.state[n].args)
                /\ \A i \in 1..Len(saved.state[n].args) :
                      applications'[n].args[i] = ReadBack(saved.state[n].args[i])
                /\ Len(applications'[n].kwargs) = Len(saved.state[n].kwargs)
                /\ \A i \in 1..Len(saved.state[n].kwargs) :
                      /\ applications'[n].kwargs[i][1] = saved.state[n].kwargs[i][1]
                      /\ applications'[n].kwargs[i][2] = ReadBack(saved.state[n].kwargs[i][2])
      ]_vars

C10_Witness ==
    /\ fresh
    /\ pubResult.op = "loadstate"
    /\ pubResult.status = "loaded"
    /\ saved.valid
    /\ DOMAIN applications = {NameA, NameB}
    /\ applications[NameA].args = <<ListVal>>
    /\ applications[NameB].kwargs = OptionX

\* C11: loadstate on a missing state file, on a file that is not valid JSON, or
\* on a document without an "apps" list returns an error result without raising
\* and leaves the registered applications unchanged.
NoAppsList == stateFile.kind # "json" \/ ~stateFile.hasApps

C11_LoadErrorsReturned ==
    [][ (pubResult'.op = "loadstate" /\ NoAppsList)
          => (pubResult'.status = "error" /\ UNCHANGED RegistryVars)
      ]_vars

\* C12: with skip_missing=True loadstate never fails because of a snapshot
\* entry: every entry that cannot be loaded is reported in "skipped", every
\* other entry is registered, and the result status is "loaded".
EntryOk(e) == ~Reserved(e.name) /\ Loadable(e.spec)

\* Entry i registers: it can be loaded and no earlier loadable entry has its name.
Registers(es, i) ==
    /\ EntryOk(es[i])
    /\ \A j \in 1..(i - 1) : es[j].name = es[i].name => ~EntryOk(es[j])

C12_SkipMissing ==
    [][ (LoadState(TRUE) /\ ~NoAppsList) =>
          LET es == stateFile.apps
              sk == pubResult'.skipped
          IN  /\ pubResult'.status = "loaded"
              /\ DOMAIN applications' = { es[i].name : i \in { k \in 1..Len(es) : Registers(es, k) } }
              /\ \A i \in 1..Len(es) :
                    Registers(es, i) => state'[es[i].name].spec = es[i].spec
              /\ Len(sk) = Cardinality({ k \in 1..Len(es) : ~Registers(es, k) })
              /\ \A i \in 1..Len(es) :
                    ~Registers(es, i) => \E k \in 1..Len(sk) : sk[k].entry = es[i]
      ]_vars

C12_Witness ==
    /\ pubResult.op = "loadstate"
    /\ pubResult.status = "loaded"
    /\ Len(pubResult.skipped) = 1
    /\ pubResult.skipped[1].error = "LoadError"
    /\ DOMAIN applications = {NameA}

-----------------------------------------------------------------------------
(***************************************************************************)
(* Claims about Part III                                                   *)
(***************************************************************************)

CliRan == cliExit # "none"

HelpTokens == {<<"-", "-", "h", "e", "l", "p">>, <<"-", "h">>}

\* The first token names a business handler: it is no option, no root command
\* and not the system handler.
NamesHandler(args) ==
    /\ args # <<>>
    /\ args[1][1] \notin {"-", "/"}
    /\ args[1] # <<"_", "s", "y", "s", "t", "e", "m">>

\* C13: a command line naming a handler that is not registered prints
\* "Error: Handler '<name>' not found" and "Available: ...", invokes no method
\* and exits with status 1.
C13_UnknownHandlerExitsOne ==
    (CliRan /\ NamesHandler(cliArgs) /\ cliArgs[1] \notin cliHandlers)
      => /\ cliOut = << [tag |-> "Error: Handler not found", name |-> cliArgs[1]],
                        [tag |-> "Available", name |-> <<>>] >>
         /\ cliCall.kind = "none"
         /\ cliExit = "1"

\* C14: when dispatching a command fails with a known error (argument
\* validation, an option without a value, an exception raised by the method) the
\* CLI prints "Error: <message>" and exits non-zero, and no exception leaves
\* the channel.
KnownErrors == {"ValidationError", "MethodError", "ValueError", "NotFound"}

IsOption(tok) == Len(tok) > 2 /\ tok[1] = "-" /\ tok[2] = "-"

\* The tokens end in an option that has no "=" and no token after it, behind
\* bare tokens only.
EndsInOptionWithoutValue(tokens) ==
    /\ tokens # <<>>
    /\ IsOption(tokens[Len(tokens)])
    /\ \A j \in 1..Len(tokens[Len(tokens)]) : tokens[Len(tokens)][j] # "="
    /\ \A i \in 1..(Len(tokens) - 1) : tokens[i][1] # "-"

\* The tokens after the command: after the root command, or after handler and method.
MethodTokens(args) ==
    IF args[1][1] = "/" THEN Tail(args) ELSE SubSeq(args, 3, Len(args))

\* The command line reaches a callable that exists.
Dispatches(args) ==
    /\ args # <<>>
    /\ \/ args[1] \in RootMethods
       \/ /\ Len(args) >= 2
          /\ NamesHandler(args) \/ args[1] = <<"_", "s", "y", "s", "t", "e", "m">>
          /\ args[1] \in cliHandlers
          /\ args[2] \in MethodsOf(args[1])

ErrorAndExit ==
    /\ Len(cliOut) = 1
    /\ cliOut[1].tag = "Error"
    /\ cliOut[1].name \in KnownErrors
    /\ cliExit = "1"

C14_KnownErrorsReported ==
    CliRan =>
      /\ cliRaised = "none"
      /\ (\E i \in 1..Len(cliOut) : cliOut[i].tag = "Error") => ErrorAndExit
      /\ (Dispatches(cliArgs) /\ EndsInOptionWithoutValue(MethodTokens(cliArgs)))
            => (ErrorAndExit /\ cliOut[1].name = "ValueError")
      /\ cliCall.kind # "none" =>
            \/ ErrorAndExit /\ cliOut[1].name \in {"ValidationError", "MethodError"}
            \/ cliExit = "0" /\ cliOut = << [tag |-> "json", name |-> <<>>] >>

C14_Witness ==
    /\ cliArgs = <<TokList, TokList, TokKey>>
    /\ cliHandlers = {TokList}
    /\ cliOut = << [tag |-> "Error", name |-> "ValueError"] >>
    /\ cliExit = "1"
    /\ cliRaised = "none"

\* C15: if --help or -h appears at any position among the tokens, help is shown
\* and no handler method or root command is invoked.
HelpShown ==
    \E i \in 1..Len(cliOut) : cliOut[i].tag \in {"help:general", "help:handler", "help:root"}

C15_HelpAnywhere ==
    (CliRan /\ \E i \in 1..Len(cliArgs) : cliArgs[i] \in HelpTokens)
      => (HelpShown /\ cliCall.kind = "none")

\* C17: a first token starting with "/" is only ever dispatched to a root
\* command, a first token without it never is, so a handler registered under
\* the name of a root command without its slash is reached by that name.
C17_RootNamespace ==
    (CliRan /\ cliArgs # <<>>) =>
      /\ cliArgs[1][1] = "/" =>
            /\ cliCall.kind \in {"none", "root"}
            /\ cliArgs[1] \in RootMethods => cliCall.kind # "business"
      /\ cliArgs[1][1] # "/" => cliCall.kind # "root"
      /\ cliCall.kind = "root" => cliCall.method = cliArgs[1]
      /\ (Len(cliArgs) = 2 /\ Dispatches(cliArgs) /\ NamesHandler(cliArgs))
            => (cliCall.kind = "business" /\ cliCall.target = cliArgs[1]
                /\ cliCall.method = cliArgs[2])
      /\ (Len(cliArgs) = 1 /\ cliArgs[1] \in RootMethods)
            => (cliCall.kind = "root" /\ cliCall.target = <<>>)

C17_Witness ==
    /\ cliArgs = <<TokList, TokList>>
    /\ TokSlashList \in RootMethods
    /\ cliCall.kind = "business"
    /\ cliCall.target = TokList
    /\ cliExit = "0"

\* C16: the splitter maps "--key value" and "--key=value" to keyword
\* key=value, appends bare tokens to the positionals in input order, and after a
\* "--" separator takes all remaining tokens as positionals.
SplitDone == splitOut.status = "ok"

Fate(i) == splitOut.fate[i]

\* The text of an option token after its two dashes.
OptionText(tok) == SubSeq(tok, 3, Len(tok))

EqAt(text) == CHOOSE j \in 1..Len(text) : text[j] = "=" /\ \A k \in 1..(j - 1) : text[k] # "="

\* Key and value that the option at index i of the input stands for.
KeyAt(i) ==
    IF Fate(i) = "keyvalue"
      THEN SubSeq(OptionText(splitIn[i]), 1, EqAt(OptionText(splitIn[i])) - 1)
      ELSE OptionText(splitIn[i])
ValueAt(i) ==
    IF Fate(i) = "keyvalue"
      THEN SubSeq(OptionText(splitIn[i]), EqAt(OptionText(splitIn[i])) + 1,
                  Len(OptionText(splitIn[i])))
      ELSE splitIn[i + 1]

Options == { i \in 1..Len(splitIn) : Fate(i) \in {"key", "keyvalue"} }
Positionals == { i \in 1..Len(splitIn) : Fate(i) = "positional" }
SeparatorBefore(i) == \E j \in 1..(i - 1) : Fate(j) = "separator"

\* Each token is treated by its form and place.
TokensClassified ==
    /\ Len(splitOut.fate) = Len(splitIn)
    /\ \A i \in 1..Len(splitIn) :
         LET tok == splitIn[i] IN
         /\ Fate(i) = "separator" <=> (tok = <<"-", "-">> /\ ~SeparatorBefore(i)
                                        /\ (i > 1 => Fate(i - 1) # "key"))
         /\ Fate(i) = "value" <=> (i > 1 /\ Fate(i - 1) = "key")
         /\ Fate(i) = "keyvalue" => (IsOption(tok) /\ \E j \in 3..Len(tok) : tok[j] = "=")
         /\ Fate(i) = "key" => (IsOption(tok) /\ \A j \in 3..Len(tok) : tok[j] # "="
                                 /\ i < Len(splitIn))
         /\ Fate(i) = "positional" => (SeparatorBefore(i) \/ ~IsOption(tok))
         /\ (IsOption(tok) /\ ~SeparatorBefore(i) /\ (i > 1 => Fate(i - 1) # "key"))
              => Fate(i) \in {"key", "keyvalue"}

\* The positionals are the tokens taken as positional, in input order.
PositionalsInOrder ==
    /\ Len(splitOut.positional) = Cardinality(Positionals)
    /\ \A i \in Positionals :
         splitOut.positional[Cardinality({ j \in Positionals : j <= i })] = splitIn[i]

\* C16 (as stated): every input token other than the separator ends up exactly
\* once as a positional, a key, or a value.
C16_Original ==
    SplitDone =>
      /\ TokensClassified
      /\ PositionalsInOrder
      /\ Cardinality(DOMAIN splitOut.keyword) = Cardinality(Options)
      /\ \A i \in Options : splitOut.keyword[KeyAt(i)] = ValueAt(i)

\* C16 (amended): a repeated key keeps the value of its last occurrence, and an
\* option without "=" that is the last token makes the splitter raise ValueError.
LastOption(i) == \A j \in Options : KeyAt(j) = KeyAt(i) => j <= i

MissingValue ==
    \E i \in 1..Len(splitIn) :
        /\ i = Len(splitIn)
        /\ IsOption(splitIn[i])
        /\ \A j \in 3..Len(splitIn[i]) : splitIn[i][j] # "="
        /\ Len(splitOut.fate) = i - 1
        /\ \A j \in 1..(i - 1) : splitOut.fate[j] # "separator"
        /\ (i > 1 => splitOut.fate[i - 1] # "key")

C16_Splitter ==
    /\ SplitDone =>
         /\ TokensClassified
         /\ PositionalsInOrder
         /\ DOMAIN splitOut.keyword = { KeyAt(i) : i \in Options }
         /\ \A i \in Options : LastOption(i) => splitOut.keyword[KeyAt(i)] = ValueAt(i)
    /\ splitOut.status = "ValueError" => MissingValue

C16_Witness ==
    /\ splitIn = <<TokKeyEq, TokKey, TokX, TokX>>
    /\ SplitDone
    /\ splitOut.positional = <<TokX>>
    /\ splitOut.keyword[<<"k">>] = TokX

-----------------------------------------------------------------------------
(***************************************************************************)
(* Claims about Part IV                                                    *)
(***************************************************************************)

\* C18: the HTTP adapter registers a GET route for every method whose name is
\* read-like (list, get, search, describe) and a POST route for every other
\* method.
ReadLike == { <<"l", "i", "s", "t">>, <<"g", "e", "t">>,
              <<"s", "e", "a", "r", "c", "h">>, <<"d", "e", "s", "c", "r", "i", "b", "e">> }

\* A method's name without the slash of a root command.
Bare(m) == IF m[1] = "/" THEN Tail(m) ELSE m

Exposed ==
    httpTree.handlers \cup (IF httpTree.childHasApi THEN httpTree.methods ELSE {})

C18_VerbByName ==
    httpApp = "built" =>
      /\ \A m \in Exposed : \E r \in httpRoutes : r.method = m
      /\ \A r \in httpRoutes :
            /\ r.method \in Exposed
            /\ r.verb = IF Bare(r.method) \in ReadLike THEN "get" ELSE "post"

-----------------------------------------------------------------------------
(***************************************************************************)
(* Claims about Part V                                                     *)
(***************************************************************************)

\* A view is taken: the step of members() with a channel filter.
TakesChannelView ==
    /\ UNCHANGED <<entryCfg, entryScope>>
    /\ view'.asked
    /\ view'.channel # "none"

\* The channels a method's scope metadata lists.
Listed(m) ==
    UNION { entryScope[m].channels[sc] : sc \in DOMAIN entryScope[m].channels }

\* C19 (as stated): a channel-filtered view contains only methods explicitly
\* marked as exposable on that channel; a method whose metadata does not list
\* the channel, or that carries no marking at all, is not visible.
C19_Original ==
    [][ TakesChannelView =>
          \A m \in view'.methods : entryScope[m].marked /\ view'.channel \in Listed(m)
      ]_vars

\* C19 (amended): a method is left out of the view of a channel exactly when
\* its scope metadata lists some channels and the requested one is not among
\* them (or when a scope filter is given and none of its tags is asked for); a
\* method without marking, or whose scopes resolve to no channel, is visible on
\* every channel.
C19_ChannelView ==
    [][ TakesChannelView =>
          \A m \in DOMAIN entryScope :
             LET tags == { entryScope[m].tags[i] : i \in 1..Len(entryScope[m].tags) }
                 scopeOk == view'.scopes = {} \/ tags \cap view'.scopes # {}
                 channelOk == Listed(m) = {} \/ view'.channel \in Listed(m)
             IN  m \in view'.methods <=> (scopeOk /\ channelOk)
      ]_vars

C19_Witness ==
    /\ view.asked
    /\ view.channel = "HTTP"
    /\ view.scopes = {}
    /\ \E m \in DOMAIN entryScope :
          entryScope[m].marked /\ Listed(m) # {} /\ "HTTP" \notin Listed(m)
          /\ m \notin view.methods
    /\ \E m \in DOMAIN entryScope : ~entryScope[m].marked /\ m \in view.methods

-----------------------------------------------------------------------------
(***************************************************************************)
(* Claims about Part VI                                                    *)
(***************************************************************************)

Triples == Instances \X ToggleMethods \X TogglePlugins

\* Whether plugin t[3] acts on method t[2] of instance t[1] differs across the step.
Flips(t) == IsPluginEnabled(t[1], t[2], t[3]) # IsPluginEnabled(t[1], t[2], t[3])'

\* C20: switching a plugin off (or on) for method m on instance x changes
\* nothing for the same method on another instance of the class nor for another
\* method on x: a step changes the plugin's state for at most one
\* (instance, method, plugin).
C20_ToggleIsolation ==
    [][ \A t \in Triples : Flips(t) => \A u \in Triples \ {t} : ~Flips(u) ]_vars

C20_Witness ==
    /\ ~IsPluginEnabled("repo1", "history", "logging")
    /\ IsPluginEnabled("repo2", "history", "logging")
    /\ IsPluginEnabled("repo1", "branches", "logging")
    /\ lastCall.instance = "repo2"
    /\ lastCall.method = "history"
    /\ "logging" \in lastCall.acted

-----------------------------------------------------------------------------
(***************************************************************************)
(* Claims about Part VII                                                   *)
(***************************************************************************)

FlagsResolved == flagResolved.done

\* The override names flag f with (on = FALSE) or without (on = TRUE) ":off".
OverrideNames(f, on) == \E i \in 1..Len(flagOverride) : flagOverride[i] = FlagToken(f, on)

Unnamed(f) == ~OverrideNames(f, TRUE) /\ ~OverrideNames(f, FALSE)

\* What the global flags string alone gives for flag f.
GlobalValue(f) == ParseFlags(flagGlobal, FlagDefaults)[f]

\* C21: in the configuration resolved for a method, a flag its override names
\* with ":off" is clear whatever the global value, a flag it names without is
\* set, and every flag it does not name has the value of the global config.
C21_OverrideOnlyNamedFlags ==
    FlagsResolved =>
        \A f \in LogFlags :
            /\ OverrideNames(f, FALSE) => ~flagResolved.flags[f]
            /\ OverrideNames(f, TRUE) => flagResolved.flags[f]
            /\ Unnamed(f) => flagResolved.flags[f] = GlobalValue(f)

\* flags="enabled,after" with the override "before:off,time" (test_method_config_override_flags).
C21_Witness ==
    /\ FlagsResolved
    /\ flagGlobal = <<FlagToken("enabled", TRUE), FlagToken("after", TRUE)>>
    /\ flagOverride = <<FlagToken("before", FALSE), FlagToken("time", TRUE)>>
    /\ flagResolved.flags = [enabled |-> TRUE, before |-> FALSE, after |-> TRUE, time |-> TRUE]

-----------------------------------------------------------------------------
(***************************************************************************)
(* Claims about Part VIII                                                  *)
(***************************************************************************)

\* The scope tags the plugin resolves for method m from its present configuration.
ResolvedTags(m) == ResolveScopes(handlerConfigs, entryOverrides, globalConfig, m)

HasPayload(m) == entryMetadata[m].marked

\* C22: once a method is registered, and after every set_config and
\* set_method_config since, its entry carries a "scope" payload exactly when
\* the scope tags resolved for it are not empty.
C22_PayloadIffTags ==
    \A m \in PublishMethods :
        entryOverrides[m].decorated => (HasPayload(m) <=> ResolvedTags(m) # <<>>)

PayloadCodes ==
    UNION UNION { { entryMetadata[m].channels[sc] : sc \in DOMAIN entryMetadata[m].channels }
                    : m \in PublishMethods }

StoredCodes ==
    UNION ( { globalConfig.map[k] : k \in DOMAIN globalConfig.map }
            \cup UNION { { handlerConfigs[m].map[k] : k \in DOMAIN handlerConfigs[m].map }
                            : m \in PublishMethods }
            \cup UNION { { entryOverrides[m].map[k] : k \in DOMAIN entryOverrides[m].map }
                            : m \in PublishMethods } )

\* An operation given a code that is not uppercase raises and stores nothing.
LowerRejected ==
    publishOp'.lower =>
        /\ publishOp'.raised
        /\ globalConfig' = globalConfig
        /\ handlerConfigs' = handlerConfigs
        /\ StoredCodes' = StoredCodes

\* C23: every channel code in a scope payload is uppercase, and a code that is
\* not uppercase given through the plugin's configuration, a method's
\* configuration or the metadata of an entry raises ValueError and is not stored.
C23_UppercaseOnly ==
    /\ [](\A code \in PayloadCodes : ValidChannelCode(code))
    /\ [][LowerRejected]_vars

-----------------------------------------------------------------------------
(***************************************************************************)
(* Claims about Part IX                                                    *)
(***************************************************************************)

UsesOf(t) == { u \in dbUses : u[1] = t }

ActiveThreads == { t \in Threads : UsesOf(t) # {} }

\* C24: a thread gets its connection on its first use of the database manager
\* and all its cursor(), commit() and rollback() calls are made on it; no
\* connection is used by a thread that did not create it.
C24_ConnectionPerThread ==
    /\ \A u \in dbUses : connCreator[u[2]] = u[1]
    /\ \A u, v \in dbUses : u[1] = v[1] => u[2] = v[2]
    /\ Len(connCreator) = Cardinality(ActiveThreads)

C24_Witness ==
    /\ <<"main", 1, "cursor">> \in dbUses
    /\ <<"main", 1, "commit">> \in dbUses
    /\ <<"worker1", 2, "cursor">> \in dbUses
    /\ <<"worker1", 2, "rollback">> \in dbUses
    /\ UsesOf("worker2") = {}

-----------------------------------------------------------------------------
(***************************************************************************)
(* Further claims about Part II                                            *)
(***************************************************************************)

RegistryOps == {"add", "remove", "unload_app", "loadstate"}

LoadRaised == pubResult'.op = "loadstate" /\ pubResult'.status = "raised"

\* C26: a loadstate that raises because an entry of the snapshot cannot be
\* loaded (skip_missing false) leaves the Publisher with exactly the
\* applications it had before the call.
C26_LoadAllOrNothing ==
    [][ (LoadRaised /\ ~NoAppsList) => applications' = applications ]_vars

SnapshotNames == { stateFile.apps[i].name : i \in 1..Len(stateFile.apps) }

\* C27: with autosave on, after a successful add or remove the file at the
\* state path is a version 1 document carrying the autosave flag and one entry
\* for every registered application, and no other entry.
C27_AutosaveSnapshot ==
    (autosave /\ pubResult.op \in {"add", "remove"}
              /\ pubResult.status \in {"registered", "removed"}) =>
        /\ stateFile.kind = "json"
        /\ stateFile.hasApps
        /\ stateFile.version = 1
        /\ stateFile.autosave = autosave
        /\ SnapshotNames = DOMAIN applications
        /\ Len(stateFile.apps) = Cardinality(DOMAIN applications)
        /\ \A i \in 1..Len(stateFile.apps) :
              /\ stateFile.apps[i].spec = state[stateFile.apps[i].name].spec
              /\ Len(stateFile.apps[i].args) = Len(state[stateFile.apps[i].name].args)
              /\ Len(stateFile.apps[i].kwargs) = Len(state[stateFile.apps[i].name].kwargs)

\* NameA removed with autosave on while NameB stays registered.
C27_Witness ==
    /\ autosave
    /\ pubResult = Result("remove", NameA, "removed", <<>>)
    /\ DOMAIN applications = {NameB}
    /\ SnapshotNames = {NameB}

\* C28: loadstate leaves the autosave setting as it was, returning or raising;
\* it writes no snapshot while the entries are added and at most one snapshot,
\* after all entries were processed.
C28_LoadSuspendsAutosave ==
    [][ pubResult'.op = "loadstate" =>
          /\ autosave' = autosave
          /\ snapshotWrites'.loop = 0
          /\ snapshotWrites'.end <= 1
          /\ (snapshotWrites'.end = 1 => pubResult'.status = "loaded") ]_vars

\* Two applications loaded with autosave on, one snapshot written at the end.
C28_Witness ==
    /\ pubResult.op = "loadstate"
    /\ pubResult.status = "loaded"
    /\ autosave
    /\ DOMAIN applications = {NameA, NameB}
    /\ snapshotWrites = Writes(0, 1)

-----------------------------------------------------------------------------
(***************************************************************************)
(* Claims about Part X                                                     *)
(***************************************************************************)

\* The channels configured for a key: the method's when the method
\* configuration has the key, else the metadata's, else the global ones.
Configured(key) ==
    IF key \in DOMAIN resolveIn.method THEN resolveIn.method[key]
    ELSE IF key \in DOMAIN resolveIn.metadata THEN resolveIn.metadata[key]
    ELSE IF key \in DOMAIN resolveIn.global THEN resolveIn.global[key]
    ELSE {}

\* Keys in the order they are asked for the scope: its own name, the pattern
\* that matches it, the catch-all.
LookupOrder == IF resolveIn.scope = "public_x" THEN <<"public_x", "public_*", "*">>
               ELSE <<resolveIn.scope, "*">>

Yielding == { i \in 1..Len(LookupOrder) : Configured(LookupOrder[i]) # {} }

BuiltInDefault == IF resolveIn.scope = "public_x" THEN {"HTTP"} ELSE {}

\* C29: the channels of a scope are those of the first of its own name, a
\* matching pattern key and "*" that yields any channel, each taken from the
\* most specific level that configures it (method over metadata over
\* global), and the built-in default rules apply only when none of them
\* yields a channel.
C29_LookupPrecedence ==
    resolveOut.done =>
        resolveOut.channels =
            IF Yielding = {} THEN BuiltInDefault
            ELSE Configured(LookupOrder[CHOOSE i \in Yielding : \A j \in Yielding : i <= j])

\* ---------------------------------------------------------------------------
\* Further claims about Part I
\* ---------------------------------------------------------------------------

\* Articles.remove declares `autocommit: bool = True`: the value the method
\* works with when the caller leaves the argument out.
DeclaredAutocommit == TRUE

\* The value of the method's autocommit parameter for a call: the keyword the
\* caller passed, or the declared default when the key is not in kwargs.
EffectiveAutocommit(kw) == IF kw = "absent" THEN DeclaredAutocommit ELSE kw = "True"

\* C30: once the wrapped function has returned and the dbop wrapper has run its
\* after part, commit() has been called whenever the effective value of the
\* method's autocommit parameter is true, also when that value is the declared
\* default of a call that leaves the keyword out.
C30_CommitOnEffectiveAutocommit ==
    (funcResult = "returned" /\ dbopExit # "none" /\ EffectiveAutocommit(call.autocommit))
        => commitCalls = 1

====
